---- MODULE Spec2Model ----
(***************************************************************************)
(* The file registry (FileStorageService), the cloud provider it mirrors   *)
(* to (CloudStorage: DropboxStorageService / GoogleDriveStorageService)    *)
(* and the reconciliation of local and remote listings.                    *)
(*                                                                         *)
(* A text (a file's content) is a run of one character: [ch, n] is the     *)
(* string made of n copies of ch.  That keeps what the code reads of a     *)
(* string: whether it is empty, whether it trims to empty, its length in   *)
(* characters and its length in UTF-8 bytes.                               *)
(***************************************************************************)
EXTENDS Integers, Sequences, FiniteSets, TLC

VARIABLES
    localStorage,    \* the item under STORAGE_KEY ('pwa_files') of the host's localStorage
    remote,          \* the files the active provider holds, in listing order
    activeProvider,  \* the CloudStorage the service mirrors to ("none": not configured)
    authenticated,   \* authService.isAuthenticated() of the active provider
    last,            \* the last call on the service: arguments, outcome, provider calls
    token,           \* the item under TOKEN_STORAGE_KEY: the token the auth service stored
    now,             \* Date.now(), in milliseconds
    fileIdCache,     \* GoogleDriveStorageService.fileIdCache: the file id kept for a name
    inFlight,        \* App: the calls on fileStorage that have started and not settled
    isLoading,       \* App: the isLoading state, which disables the buttons of the editor
    effects,         \* App: the effects React has scheduled and not run yet
    saves,           \* the saveFile calls that have started, each with what it read
    promises,        \* GoogleDriveAuthService: the promises ensureAccessToken has returned
    callback,        \* tokenClient.callback: the promise it settles (0: the one of the initialiser)
    requests,        \* requestAccessToken calls the Google token client has not answered yet
    folderId,        \* GoogleDriveStorageService.folderId (0: null)
    folderIdPromise, \* GoogleDriveStorageService.folderIdPromise and where its function stands
    folderCalls,     \* the ensureFolderId calls made: the promise each awaits, what it got
    driveFolders,    \* the ids of the folders of that name in the root of the user's Drive
    sessionState,    \* the item under STATE_STORAGE_KEY of sessionStorage (0: none)
    codeVerifier,    \* the item under CODE_VERIFIER_STORAGE_KEY of sessionStorage (0: none)
    redirect         \* the last redirect processRedirectResult has processed, and its result

\* what the provider-level specification follows and the service-level ones leave alone
cloudVars == <<token, now, fileIdCache>>

\* the component and the calls that overlap in time: what the specifications of single
\* calls leave alone
appVars == <<inFlight, isLoading, effects>>
authVars == <<promises, callback, requests>>
folderVars == <<folderId, folderIdPromise, folderCalls, driveFolders>>
oauthVars == <<sessionState, codeVerifier, redirect>>
asyncVars == <<appVars, saves, authVars, folderVars, oauthVars>>

serviceVars == <<localStorage, remote, activeProvider, authenticated, last>>

vars == <<serviceVars, cloudVars, asyncVars>>

----------------------------------------------------------------------------
(* Bounds of the model *)

\* the values generateId() draws from
MaxIds == 2
\* files already in the registry when the service is constructed on a used browser profile
NumBulk == 9

----------------------------------------------------------------------------
(* Program constants *)

MAX_FILE_SIZE == 5 * 1024 * 1024
MAX_TOTAL_SIZE == 50 * 1024 * 1024

----------------------------------------------------------------------------
(* Texts *)

Text(c, k) == [ch |-> c, n |-> k]

\* bytes of one character in UTF-8, the encoding Blob uses for a string part
Utf8Width(c) == IF c = "e_acute" THEN 2 ELSE 1

\* (a slip: the length in characters is taken for the byte length)
BlobSizeChars(t) == t.n

\* new Blob([content]).size
BlobSize(t) == t.n * Utf8Width(t.ch)

\* content.length
CharLength(t) == t.n

\* !s || !s.trim()  for a content
IsBlankText(t) == t.n = 0 \/ t.ch = " "

\* fileName.trim()
Trim(s) == IF s = " " THEN "" ELSE s

\* !fileName || !fileName.trim()
IsBlankName(s) == s = "" \/ Trim(s) = ""

TextE == Text("e_acute", 1)
TextMax == Text("A", MAX_FILE_SIZE)
TextEmpty == Text("A", 0)
TextSpaces == Text(" ", 2)
TextOver == Text("A", MAX_FILE_SIZE + 1)
TextOverBytes == Text("e_acute", (MAX_FILE_SIZE \div 2) + 1)

\* the names and contents callers pass
ValidNames == {"a", "b"}
Names == ValidNames \cup {"", " "}
ValidContents == {TextE, TextMax}
Contents == ValidContents \cup {TextEmpty, TextSpaces, TextOver, TextOverBytes}

\* the arguments callers pass to saveFile: every valid pair, a blank name, and every
\* invalid content next to a valid name
SaveInputs ==
    (ValidNames \X ValidContents)
        \cup ((Names \ ValidNames) \X {TextE, TextSpaces})
        \cup ({"a"} \X (Contents \ ValidContents))

\* the provider the model follows
Providers == {"dropbox"}
NoProvider == "none"

----------------------------------------------------------------------------
(* Sequences *)

Range(s) == {s[i] : i \in 1..Len(s)}

RECURSIVE SumSizes(_)
\* existingFiles.reduce((total, file) => total + file.size, 0)
SumSizes(fs) == IF fs = <<>> THEN 0 ELSE Head(fs).size + SumSizes(Tail(fs))

\* files.findIndex(file => file.name === fileName); 0 stands for -1
FindIndex(fs, fileName) ==
    IF \E i \in 1..Len(fs) : fs[i].name = fileName
    THEN CHOOSE i \in 1..Len(fs) :
            /\ fs[i].name = fileName
            /\ \A j \in 1..(i - 1) : fs[j].name # fileName
    ELSE 0

NamesOf(fs) == {fs[i].name : i \in 1..Len(fs)}

----------------------------------------------------------------------------
(* The host's localStorage item and the records in it *)

\* present: getItem returns a string; empty: the string is ""; parses: JSON.parse returns
\* a value; array: the value is an array; files: its elements
NoItem == [present |-> FALSE, empty |-> FALSE, parses |-> TRUE, array |-> TRUE, files |-> <<>>]

\* localStorage.setItem(STORAGE_KEY, JSON.stringify(files))
Item(fs) == [present |-> TRUE, empty |-> FALSE, parses |-> TRUE, array |-> TRUE, files |-> fs]

\* items that something other than saveFile left under the key: the empty string, a
\* string that is not JSON, the JSON of a value that is no array ('{}', 'null', '0')
EmptyItem ==
    [present |-> TRUE, empty |-> TRUE, parses |-> FALSE, array |-> FALSE, files |-> <<>>]
GarbageItem ==
    [present |-> TRUE, empty |-> FALSE, parses |-> FALSE, array |-> FALSE, files |-> <<>>]
NotArrayItem ==
    [present |-> TRUE, empty |-> FALSE, parses |-> TRUE, array |-> FALSE, files |-> <<>>]

\* a property the parsed element does not have (undefined)
NoContent == [ch |-> "undefined", n |-> 0 - 1]
NoSize == 0 - 1

\* the object saveFile builds; it sets no syncedProvider
StoredFile(id, name, content, createdAt, size) ==
    [id |-> id, name |-> name, content |-> content, createdAt |-> createdAt,
     size |-> size, syncedProvider |-> NoProvider]

\* new Date().toISOString(), client_modified: the model does not follow the time of day,
\* every timestamp reads the same
Timestamp == "t"

\* the createdAt of a record that an earlier session saved
Earlier == "t0"

\* (a slip: content and size are not asked for)
IsValidRecordNamed(f) == f.id # 0 /\ f.name # "" /\ f.createdAt # ""

\* the filter of getStoredFiles: file.id && file.name && file.content !== undefined &&
\* file.createdAt && file.size !== undefined (0 and "" are falsy; an element that is null
\* or no object has none of the properties)
IsValidRecord(f) ==
    /\ f.id # 0
    /\ f.name # ""
    /\ f.content # NoContent
    /\ f.createdAt # ""
    /\ f.size # NoSize

\* (a slip: the records that were parsed are not returned)
getStoredFilesNone(store) ==
    IF store.present /\ ~store.empty /\ ~(store.parses /\ store.array)
    THEN [files |-> <<>>, store |-> NoItem]
    ELSE [files |-> <<>>, store |-> store]

\* getStoredFiles(): the records read, and the item as the read leaves it
\* (!stored holds for null and for ""; JSON.parse throws on a string that is not JSON,
\* files.filter on a value that is no array: the catch removes the item)
getStoredFiles(store) ==
    IF ~store.present \/ store.empty THEN [files |-> <<>>, store |-> store]
    ELSE IF ~store.parses \/ ~store.array THEN [files |-> <<>>, store |-> NoItem]
    ELSE [files |-> SelectSeq(store.files, IsValidRecord), store |-> store]

\* the registry as a caller reads it
Registry == getStoredFiles(localStorage).files

\* (a slip: an id that a record already carries may come back)
FreshIdsAny(files) == 1..MaxIds

\* generateId(): the values a call may return when the records in files exist: any
\* value that none of them carries
FreshIds(files) == (1..MaxIds) \ {files[i].id : i \in 1..Len(files)}

\* k values of successive generateId() calls
FreshIdSeqs(files, k) ==
    {ids \in [1..k -> FreshIds(files)] : \A i, j \in 1..k : i # j => ids[i] # ids[j]}

\* the registry of a browser profile that saved NumBulk files of 4.5 MiB before
TextBulk == Text("A", MAX_FILE_SIZE - (512 * 1024))
BulkNames == <<"k01", "k02", "k03", "k04", "k05", "k06", "k07", "k08", "k09", "k10", "k11", "k12">>
BulkFile(i) == StoredFile(0 - i, BulkNames[i], TextBulk, Timestamp, BlobSize(TextBulk))
BulkFiles == [i \in 1..NumBulk |-> BulkFile(i)]

----------------------------------------------------------------------------
(* The provider *)

\* (a slip: a configured provider counts as ready)
IsReadyConfigured == activeProvider # NoProvider

\* CloudStorage.isReady(): authService.isAuthenticated()
IsReady == activeProvider # NoProvider /\ authenticated

RemoteEntry(name, content) == [name |-> name, content |-> content]

\* filesUpload with mode overwrite: the file of that name is replaced, or added
UploadInto(rem, fileName, content) ==
    IF \E i \in 1..Len(rem) : rem[i].name = fileName
    THEN [rem EXCEPT ![FindIndex(rem, fileName)] = RemoteEntry(fileName, content)]
    ELSE Append(rem, RemoteEntry(fileName, content))

----------------------------------------------------------------------------
(* The record of the last call on the service *)

\* name/content: the arguments of a saveFile that wrote, the name and the content
\* returned by a loadFile; thrown: the error raised inside the call; error: the error
\* the caller receives; wrote: the call wrote the registry; calls: provider calls issued;
\* files/conflicts: what listFiles returned; fetched: what fetchFiles returned to it;
\* before: the records a reconciliation pass read from the registry; info: what
\* getStorageInfo returned
NoInfo == [used |-> 0, available |-> 0, total |-> 0, fileCount |-> 0]

Call(op, name, content, thrown, error, wrote, calls) ==
    [op |-> op, name |-> name, content |-> content, thrown |-> thrown, error |-> error,
     wrote |-> wrote, calls |-> calls, files |-> <<>>, conflicts |-> <<>>,
     fetched |-> <<>>, before |-> <<>>, info |-> NoInfo]

Idle == Call("none", "", TextEmpty, "none", "none", FALSE, <<>>)

----------------------------------------------------------------------------
(* FileStorageService.saveFile *)

\* error.name === 'QuotaExceededError' || error.message.includes('storage')
MentionsStorage(err) == err \in {"QuotaExceededError", "StorageLimitExceeded"}

\* the catch block of saveFile: the error the caller receives for a thrown one
SaveFileCatch(err) ==
    IF err = "DropboxSyncError" THEN err
    ELSE IF MentionsStorage(err) THEN "StorageQuotaExceeded"
    ELSE err

\* syncToDropbox: what it throws to saveFile when uploadFile threw uploadError
\* (its catch logs the error and returns)
syncToDropbox(uploadError) == "none"

\* (a slip: on overwrite the content is preserved along with id and createdAt)
FileObjectStale(existingFiles, fileName, content, newId) ==
    LET existingIndex == FindIndex(existingFiles, fileName)
    IN  StoredFile(
            IF existingIndex # 0 THEN existingFiles[existingIndex].id ELSE newId,
            fileName,
            IF existingIndex # 0 THEN existingFiles[existingIndex].content ELSE content,
            IF existingIndex # 0 THEN existingFiles[existingIndex].createdAt ELSE Timestamp,
            BlobSize(content))

\* (a slip: an overwrite stamps the record anew)
FileObjectRestamped(existingFiles, fileName, content, newId) ==
    LET existingIndex == FindIndex(existingFiles, fileName)
    IN  StoredFile(
            IF existingIndex # 0 THEN existingFiles[existingIndex].id ELSE newId,
            fileName,
            content,
            Timestamp,
            BlobSize(content))

\* the object saveFile builds for (fileName, content) over existingFiles; newId is what
\* generateId() returns
FileObject(existingFiles, fileName, content, newId) ==
    LET existingIndex == FindIndex(existingFiles, fileName)
    IN  StoredFile(
            IF existingIndex # 0 THEN existingFiles[existingIndex].id ELSE newId,
            fileName,
            content,
            IF existingIndex # 0 THEN existingFiles[existingIndex].createdAt ELSE Timestamp,
            BlobSize(content))

\* (a slip: the object is always pushed)
UpdateOrAddPush(existingFiles, fileObject) == Append(existingFiles, fileObject)

\* "Update or add file": the object replaces the record of its name or is pushed
UpdateOrAdd(existingFiles, fileObject) ==
    LET existingIndex == FindIndex(existingFiles, fileObject.name)
    IN  IF existingIndex # 0
        THEN [existingFiles EXCEPT ![existingIndex] = fileObject]
        ELSE Append(existingFiles, fileObject)

\* (a slip: the size of the new content alone is compared with the limit)
ExceedsTotalAlone(existingFiles, fileName, contentSize) ==
    /\ FindIndex(existingFiles, fileName) = 0
    /\ contentSize > MAX_TOTAL_SIZE

\* (a slip: the check is not limited to new names)
ExceedsTotalAnyName(existingFiles, fileName, contentSize) ==
    SumSizes(existingFiles) + contentSize > MAX_TOTAL_SIZE

\* existingIndex === -1 && currentTotalSize + contentSize > MAX_TOTAL_SIZE
ExceedsTotal(existingFiles, fileName, contentSize) ==
    /\ FindIndex(existingFiles, fileName) = 0
    /\ SumSizes(existingFiles) + contentSize > MAX_TOTAL_SIZE

\* contentSize > MAX_FILE_SIZE
ExceedsFileSize(contentSize) == contentSize > MAX_FILE_SIZE

\* the validation of saveFile before it reads the registry
SaveRejected(fileName, content) ==
    IF IsBlankName(fileName) THEN "FileNameRequired"
    ELSE IF IsBlankText(content) THEN "FileContentRequired"
    ELSE IF ExceedsFileSize(BlobSize(content)) THEN "FileSizeExceeds"
    ELSE "none"

SaveFile(fileName, content) ==
    /\ UNCHANGED cloudVars
    /\ UNCHANGED asyncVars
    /\ LET read == getStoredFiles(localStorage)
           existingFiles == read.files
           existingIndex == FindIndex(existingFiles, fileName)
           updated(newId) ==
               UpdateOrAdd(existingFiles, FileObject(existingFiles, fileName, content, newId))
           newIds == IF existingIndex # 0 THEN {0} ELSE FreshIds(existingFiles)
       IN  IF SaveRejected(fileName, content) # "none" THEN
               /\ last' = Call("saveFile", "", TextEmpty, SaveRejected(fileName, content),
                               SaveRejected(fileName, content), FALSE, <<>>)
               /\ UNCHANGED <<localStorage, remote, activeProvider, authenticated>>
           ELSE IF ExceedsTotal(existingFiles, fileName, BlobSize(content)) THEN
               /\ last' = Call("saveFile", fileName, TextEmpty, "StorageLimitExceeded",
                               SaveFileCatch("StorageLimitExceeded"), FALSE, <<>>)
               /\ localStorage' = read.store
               /\ UNCHANGED <<remote, activeProvider, authenticated>>
           ELSE
               /\ UNCHANGED <<activeProvider, authenticated>>
               /\ \/ \* localStorage.setItem throws QuotaExceededError
                     /\ localStorage' = read.store
                     /\ remote' = remote
                     /\ last' = Call("saveFile", fileName, TextEmpty, "QuotaExceededError",
                                     SaveFileCatch("QuotaExceededError"), FALSE, <<>>)
                  \/ \* the write succeeds; no provider is ready
                     /\ ~IsReady
                     /\ \E newId \in newIds : localStorage' = Item(updated(newId))
                     /\ remote' = remote
                     /\ last' = Call("saveFile", fileName, content, "none", "none", TRUE, <<>>)
                  \/ \* the write succeeds; uploadFile succeeds
                     /\ IsReady
                     /\ \E newId \in newIds : localStorage' = Item(updated(newId))
                     /\ remote' = UploadInto(remote, fileName, content)
                     /\ last' = Call("saveFile", fileName, content, "none", "none", TRUE,
                                     <<"uploadFile">>)
                  \/ \* the write succeeds; uploadFile throws DropboxSyncError
                     /\ IsReady
                     /\ \E newId \in newIds : localStorage' = Item(updated(newId))
                     /\ remote' = remote
                     /\ last' = Call("saveFile", fileName, content, "DropboxSyncError",
                                     SaveFileCatch(syncToDropbox("DropboxSyncError")), TRUE,
                                     <<"uploadFile">>)

----------------------------------------------------------------------------
(* FileStorageService.loadFile *)

\* files.find(f => f.name === fileName).content
LoadContent(files, fileName) == files[FindIndex(files, fileName)].content

LoadFile(fileName) ==
    /\ UNCHANGED cloudVars
    /\ UNCHANGED asyncVars
    /\ LET read == getStoredFiles(localStorage)
           files == read.files
       IN  /\ UNCHANGED <<remote, activeProvider, authenticated>>
           /\ IF IsBlankName(fileName) THEN
                   /\ UNCHANGED localStorage
                   /\ last' = Call("loadFile", "", TextEmpty, "FileNameRequired",
                                   "FileNameRequired", FALSE, <<>>)
              ELSE
                   /\ localStorage' = read.store
                   /\ IF FindIndex(files, fileName) = 0
                      THEN last' = Call("loadFile", fileName, TextEmpty, "NotFound", "NotFound",
                                        FALSE, <<>>)
                      ELSE last' = Call("loadFile", fileName, LoadContent(files, fileName),
                                        "none", "none", FALSE, <<>>)

----------------------------------------------------------------------------
(* CloudStorage.fetchFiles and CloudStorage.deleteFile *)

\* (a slip: the size is the length of the downloaded string)
FetchedRecordLength(entry) ==
    [name |-> entry.name, content |-> entry.content, size |-> CharLength(entry.content),
     clientModified |-> Timestamp]

\* the record fetchFiles pushes for a listed entry it downloaded; entry.size is the
\* provider's byte count of the file
FetchedRecord(entry) ==
    [name |-> entry.name, content |-> entry.content, size |-> BlobSize(entry.content),
     clientModified |-> Timestamp]

RECURSIVE FetchLoop(_, _, _)
\* the loop over the listed entries: an entry whose download fails is skipped (continue)
FetchLoop(rem, skipped, i) ==
    IF i > Len(rem) THEN <<>>
    ELSE IF i \in skipped THEN FetchLoop(rem, skipped, i + 1)
    ELSE <<FetchedRecord(rem[i])>> \o FetchLoop(rem, skipped, i + 1)

\* fetchFiles(): the list returned when the listing succeeds and the downloads of the
\* entries at the indexes in skipped fail
FetchFiles(rem, skipped) == FetchLoop(rem, skipped, 1)

\* filesDeleteV2({ path }): the file of that name is removed
DeleteFrom(rem, fileName) ==
    LET k == FindIndex(rem, fileName)
    IN  IF k = 0 THEN rem
        ELSE SubSeq(rem, 1, k - 1) \o SubSeq(rem, k + 1, Len(rem))

----------------------------------------------------------------------------
(* The reconciliation pass of listFiles *)

\* the record a name is keyed to when a list is keyed by name: the last one of that name
ByName(R, name) ==
    R[CHOOSE i \in 1..Len(R) : R[i].name = name /\ \A j \in (i + 1)..Len(R) : R[j].name # name]

RECURSIVE DistinctNames(_)
\* the names of a list, each once, in the order of first appearance
DistinctNames(R) ==
    IF R = <<>> THEN <<>>
    ELSE LET rest == DistinctNames(SubSeq(R, 1, Len(R) - 1))
             n == R[Len(R)].name
         IN  IF \E i \in 1..Len(rest) : rest[i] = n THEN rest ELSE Append(rest, n)

\* (a slip: the merged record does not get the tag of the provider)
MergedRecordUntagged(local, r, provider) ==
    [id |-> local.id, name |-> local.name, content |-> r.content,
     createdAt |-> IF local.createdAt # "" THEN local.createdAt ELSE r.clientModified,
     size |-> r.size, syncedProvider |-> NoProvider]

\* (a slip: a record that already carries a tag loses it)
MergedRecordToggled(local, r, provider) ==
    [id |-> local.id, name |-> local.name, content |-> r.content,
     createdAt |-> IF local.createdAt # "" THEN local.createdAt ELSE r.clientModified,
     size |-> r.size,
     syncedProvider |-> IF local.syncedProvider = NoProvider THEN provider ELSE NoProvider]

\* a name in both L and R: local id and createdAt, remote content and size
MergedRecord(local, r, provider) ==
    [id |-> local.id, name |-> local.name, content |-> r.content,
     createdAt |-> IF local.createdAt # "" THEN local.createdAt ELSE r.clientModified,
     size |-> r.size, syncedProvider |-> provider]

\* (a slip: the tag of an earlier pass is kept)
LocalOnlyRecordTagged(local) == local

\* a name only in L
LocalOnlyRecord(local) == [local EXCEPT !.syncedProvider = NoProvider]

\* a name only in R: a new record with a fresh id
RemoteOnlyRecord(r, id, provider) ==
    [id |-> id, name |-> r.name, content |-> r.content, createdAt |-> r.clientModified,
     size |-> r.size, syncedProvider |-> provider]

\* (a slip: a record that only L holds is dropped from the merged set)
MergeFilesDropLocalOnly(L, R, provider, ids) ==
    LET remoteNames == NamesOf(R)
        isRemote(f) == f.name \in remoteNames
        both == SelectSeq(L, isRemote)
        kept == [i \in 1..Len(both) |->
                    MergedRecord(both[i], ByName(R, both[i].name), provider)]
        isNew(n) == n \notin NamesOf(L)
        newNames == SelectSeq(DistinctNames(R), isNew)
        added == [k \in 1..Len(newNames) |->
                    RemoteOnlyRecord(ByName(R, newNames[k]), ids[k], provider)]
    IN  [files |-> kept \o added, conflicts |-> <<>>]

\* the merge of the local records L and the remote records R
MergeFiles(L, R, provider, ids) ==
    LET remoteNames == NamesOf(R)
        kept == [i \in 1..Len(L) |->
                    IF L[i].name \in remoteNames
                    THEN MergedRecord(L[i], ByName(R, L[i].name), provider)
                    ELSE LocalOnlyRecord(L[i])]
        isNew(n) == n \notin NamesOf(L)
        newNames == SelectSeq(DistinctNames(R), isNew)
        added == [k \in 1..Len(newNames) |->
                    RemoteOnlyRecord(ByName(R, newNames[k]), ids[k], provider)]
        isLocalOnly(f) == f.name \notin remoteNames
    IN  [files |-> kept \o added, conflicts |-> SelectSeq(kept, isLocalOnly)]

\* the names of R that L does not hold
NewNames(L, R) == NamesOf(R) \ NamesOf(L)

\* (a slip: the error of fetchFiles is handed on)
DegradedPropagates(L) == [files |-> L, conflicts |-> <<>>, error |-> "CloudSyncError"]

\* what a pass returns when fetchFiles fails: the local records, no conflicts, no error
Degraded(L) == [files |-> L, conflicts |-> <<>>, error |-> "none"]

\* one pass: the registry is read, the provider's files are fetched and merged, and the
\* merged set is written back; a failed fetch leaves the registry as it was
Reconcile(rem, op, name, calls) ==
    LET read == getStoredFiles(localStorage)
        L == read.files
    IN  \/ \* fetchFiles throws; on a missing-scope error it has signed the user out
           /\ localStorage' = read.store
           /\ \E missingScopes \in BOOLEAN : authenticated' = ~missingScopes
           /\ last' = [Call(op, name, TextEmpty, "CloudSyncError", Degraded(L).error, FALSE,
                            Append(calls, "fetchFiles"))
                       EXCEPT !.files = Degraded(L).files,
                              !.conflicts = Degraded(L).conflicts, !.before = L]
        \/ \E skipped \in SUBSET (1..Len(rem)) :
           \E ids \in FreshIdSeqs(L, Cardinality(NewNames(L, FetchFiles(rem, skipped)))) :
              LET R == FetchFiles(rem, skipped)
                  m == MergeFiles(L, R, activeProvider, ids)
              IN  /\ localStorage' = Item(m.files)
                  /\ authenticated' = authenticated
                  /\ last' = [Call(op, name, TextEmpty, "none", "none", TRUE,
                                   Append(calls, "fetchFiles"))
                              EXCEPT !.files = m.files, !.conflicts = m.conflicts,
                                     !.fetched = R, !.before = L]

ListFiles ==
    /\ UNCHANGED cloudVars
    /\ UNCHANGED asyncVars
    /\ LET read == getStoredFiles(localStorage)
       IN  /\ UNCHANGED <<remote, activeProvider>>
           /\ IF ~IsReady THEN
                   /\ localStorage' = read.store
                   /\ authenticated' = authenticated
                   /\ last' = [Call("listFiles", "", TextEmpty, "none", "none", FALSE, <<>>)
                               EXCEPT !.files = read.files]
              ELSE Reconcile(remote, "listFiles", "", <<>>)

----------------------------------------------------------------------------
(* FileStorageService.deleteFile and clearAll *)

\* DropboxStorageService.basePath: normaliseBasePath(VITE_DROPBOX_BASE_PATH) of the
\* build, "" when the variable is unset; the files of the service are under that path
BasePaths == {"", "/pwa"}

\* (a slip: the test of the filter is inverted)
FilterOutInverted(files, fileName) ==
    LET isNamed(f) == f.name = fileName
    IN  SelectSeq(files, isNamed)

\* files.filter(file => file.name !== fileName)
FilterOut(files, fileName) ==
    LET isOther(f) == f.name # fileName
    IN  SelectSeq(files, isOther)

\* (a slip: the lengths are compared the wrong way)
NothingRemovedGreater(files, filteredFiles) == Len(filteredFiles) > Len(files)

\* filteredFiles.length === files.length
NothingRemoved(files, filteredFiles) == Len(filteredFiles) = Len(files)

DeleteFile(fileName) ==
    /\ UNCHANGED cloudVars
    /\ UNCHANGED asyncVars
    /\ LET read == getStoredFiles(localStorage)
           files == read.files
           filteredFiles == FilterOut(files, fileName)
       IN  /\ UNCHANGED <<activeProvider, authenticated>>
           /\ IF IsBlankName(fileName) THEN
                   /\ UNCHANGED <<localStorage, remote>>
                   /\ last' = Call("deleteFile", "", TextEmpty, "FileNameRequired",
                                   "FileNameRequired", FALSE, <<>>)
              ELSE IF NothingRemoved(files, filteredFiles) THEN
                   /\ localStorage' = read.store
                   /\ remote' = remote
                   /\ last' = Call("deleteFile", fileName, TextEmpty, "NotFound", "NotFound",
                                   FALSE, <<>>)
              ELSE
                   /\ localStorage' = Item(filteredFiles)
                   /\ IF activeProvider = NoProvider THEN
                           /\ remote' = remote
                           /\ last' = Call("deleteFile", fileName, TextEmpty, "none", "none",
                                           TRUE, <<>>)
                      ELSE \/ \* the provider deletes the file, or has no client and returns
                              /\ remote' = IF authenticated THEN DeleteFrom(remote, fileName)
                                           ELSE remote
                              /\ last' = Call("deleteFile", fileName, TextEmpty, "none", "none",
                                              TRUE, <<"deleteFile">>)
                           \/ \* the provider's deleteFile throws; the catch logs it
                              /\ authenticated
                              /\ remote' = remote
                              /\ last' = Call("deleteFile", fileName, TextEmpty,
                                              "CloudSyncError", "none", TRUE, <<"deleteFile">>)

ClearAll ==
    /\ UNCHANGED cloudVars
    /\ UNCHANGED asyncVars
    /\ localStorage' = NoItem
    /\ UNCHANGED <<activeProvider, authenticated>>
    /\ IF activeProvider = NoProvider THEN
            /\ remote' = remote
            /\ last' = Call("clearAll", "", TextEmpty, "none", "none", TRUE, <<>>)
       ELSE \E basePath \in BasePaths :
            \/ \* DropboxStorageService.clearAll: no client, or no base path: nothing is
               \* deleted; else filesDeleteV2({ path: basePath }) removes the folder
               /\ remote' = IF authenticated /\ basePath # "" THEN <<>> ELSE remote
               /\ last' = Call("clearAll", "", TextEmpty, "none", "none", TRUE,
                               <<"clearAll">>)
            \/ \* filesDeleteV2 throws; the catch of clearAll throws 'Failed to clear files'
               /\ authenticated /\ basePath # ""
               /\ remote' = remote
               /\ last' = Call("clearAll", "", TextEmpty, "DropboxError", "FailedToClear",
                               TRUE, <<"clearAll">>)

----------------------------------------------------------------------------
(* The conflict resolution entry points and the choice of the provider *)

UploadLocalOnlyFile(record) ==
    /\ UNCHANGED cloudVars
    /\ UNCHANGED asyncVars
    /\ UNCHANGED activeProvider
    /\ IF ~IsReady THEN
            /\ UNCHANGED <<localStorage, remote, authenticated>>
            /\ last' = Call("uploadLocalOnlyFile", record.name, TextEmpty, "CloudSyncError",
                            "CloudSyncError", FALSE, <<>>)
       ELSE \/ \* uploadFile throws
               /\ UNCHANGED <<localStorage, remote, authenticated>>
               /\ last' = Call("uploadLocalOnlyFile", record.name, TextEmpty,
                               "CloudSyncError", "CloudSyncError", FALSE, <<"uploadFile">>)
            \/ \* uploadFile succeeds and a reconciliation pass follows
               /\ remote' = UploadInto(remote, record.name, record.content)
               /\ Reconcile(UploadInto(remote, record.name, record.content),
                            "uploadLocalOnlyFile", record.name, <<"uploadFile">>)

DiscardLocalOnlyFile(fileName) ==
    /\ UNCHANGED cloudVars
    /\ UNCHANGED asyncVars
    /\ LET read == getStoredFiles(localStorage)
           isOther(f) == f.name # fileName
       IN  /\ localStorage' = Item(SelectSeq(read.files, isOther))
           /\ UNCHANGED <<remote, activeProvider, authenticated>>
           /\ last' = Call("discardLocalOnlyFile", fileName, TextEmpty, "none", "none", TRUE,
                           <<>>)

\* setCloudStorage(activeStorage ?? undefined); remote stands for the files of the
\* provider now active
SetCloudStorage(provider, ready) ==
    /\ UNCHANGED cloudVars
    /\ UNCHANGED asyncVars
    /\ provider # activeProvider
    /\ activeProvider' = provider
    /\ authenticated' = (provider # NoProvider /\ ready)
    /\ last' = Idle
    /\ UNCHANGED <<localStorage, remote>>

----------------------------------------------------------------------------
(* The environment: the user signs in or the grant ends; files change at the provider *)

SignIn ==
    /\ UNCHANGED cloudVars
    /\ UNCHANGED asyncVars
    /\ activeProvider # NoProvider
    /\ ~authenticated
    /\ authenticated' = TRUE
    /\ last' = Idle
    /\ UNCHANGED <<localStorage, remote, activeProvider>>

SignOut ==
    /\ UNCHANGED cloudVars
    /\ UNCHANGED asyncVars
    /\ authenticated
    /\ authenticated' = FALSE
    /\ last' = Idle
    /\ UNCHANGED <<localStorage, remote, activeProvider>>

\* a provider path holds one file: a name is listed once
RemoteAdd(name, content) ==
    /\ UNCHANGED cloudVars
    /\ UNCHANGED asyncVars
    /\ name \notin NamesOf(remote)
    /\ remote' = Append(remote, RemoteEntry(name, content))
    /\ last' = Idle
    /\ UNCHANGED <<localStorage, activeProvider, authenticated>>

RemoteRemove(i) ==
    /\ UNCHANGED cloudVars
    /\ UNCHANGED asyncVars
    /\ remote' = SubSeq(remote, 1, i - 1) \o SubSeq(remote, i + 1, Len(remote))
    /\ last' = Idle
    /\ UNCHANGED <<localStorage, activeProvider, authenticated>>

----------------------------------------------------------------------------

\* the service-level specifications follow isAuthenticated() in authenticated and the
\* provider's files in remote; token, clock and id cache stay as they start
NoToken == [accessToken |-> "", expiresAt |-> 0]
NoCache == [name \in ValidNames |-> 0]
CloudIdle == token = NoToken /\ now = 0 /\ fileIdCache = NoCache

\* the component before it is mounted: no call has started, no effect is scheduled
AppIdle == inFlight = <<>> /\ isLoading = FALSE /\ effects = {}
\* no ensureAccessToken call has been made
AuthIdle == promises = <<>> /\ callback = 0 /\ requests = 0
\* this.folderIdPromise = null
NoPromise == [attempt |-> 0, pc |-> "none"]

\* a new GoogleDriveStorageService; the folder is looked up on first use
FolderIdle ==
    folderId = 0 /\ folderIdPromise = NoPromise /\ folderCalls = <<>> /\ driveFolders = <<>>
\* a redirect as processRedirectResult reads it: the state and code parameters (0: the
\* parameter is missing), whether it has an error parameter, the state that was saved,
\* and the status returned
Redirect(state, code, error, storedState, status) ==
    [state |-> state, code |-> code, error |-> error, storedState |-> storedState,
     status |-> status]

NoRedirect == Redirect(0, 0, FALSE, 0, "none")

\* no authentication has been started in this tab
OAuthIdle == sessionState = 0 /\ codeVerifier = 0 /\ redirect = NoRedirect
AsyncIdle == AppIdle /\ saves = <<>> /\ AuthIdle /\ FolderIdle /\ OAuthIdle

InitCommon ==
    /\ remote = <<>>
    /\ activeProvider \in Providers \cup {NoProvider}
    /\ authenticated \in BOOLEAN
    /\ activeProvider = NoProvider => ~authenticated
    /\ last = Idle
    /\ CloudIdle
    /\ AsyncIdle

\* a fresh browser profile
Init == localStorage = NoItem /\ InitCommon

\* a profile whose registry already holds NumBulk files
InitBulk == localStorage = Item(BulkFiles) /\ InitCommon

Next ==
    \/ \E input \in SaveInputs : SaveFile(input[1], input[2])
    \/ \E fileName \in Names : LoadFile(fileName)
    \/ ListFiles
    \/ \E fileName \in Names : DeleteFile(fileName)
    \/ ClearAll
    \/ \E record \in Range(Registry) : UploadLocalOnlyFile(record)
    \/ \E fileName \in ValidNames : DiscardLocalOnlyFile(fileName)
    \/ \E provider \in Providers \cup {NoProvider}, ready \in BOOLEAN :
            SetCloudStorage(provider, ready)
    \/ SignIn
    \/ SignOut
    \/ \E name \in ValidNames, content \in ValidContents : RemoteAdd(name, content)
    \/ \E i \in 1..Len(remote) : RemoteRemove(i)

Spec == Init /\ [][Next]_vars

\* the profile near its quota: the file operations of the editor, the grant coming and going
NextBulk ==
    \/ \E input \in SaveInputs : SaveFile(input[1], input[2])
    \/ \E fileName \in Names : LoadFile(fileName)
    \/ \E fileName \in Names : DeleteFile(fileName)
    \/ SignIn
    \/ SignOut

SpecBulk == InitBulk /\ [][NextBulk]_vars

\* a profile whose registry holds a file "a" that an earlier session saved
AgedFile == StoredFile(0 - 1, "a", TextE, Earlier, BlobSize(TextE))
InitAged == localStorage = Item(<<AgedFile>>) /\ InitCommon

SpecAged == InitAged /\ [][NextBulk]_vars

\* a second file of the earlier session
GoodFile == StoredFile(0 - 2, "b", TextMax, Earlier, BlobSize(TextMax))

\* an element that is null, a number or a string: it has none of the properties
NullElement == StoredFile(0, "", NoContent, "", NoSize)

\* elements of a stored array: the file "a" as saved, the file with an empty content,
\* the file with one property missing, and an element that is no object
StoredElements ==
    {AgedFile,
     [AgedFile EXCEPT !.content = TextEmpty, !.size = 0],
     [AgedFile EXCEPT !.id = 0],
     [AgedFile EXCEPT !.name = ""],
     [AgedFile EXCEPT !.content = NoContent],
     [AgedFile EXCEPT !.createdAt = ""],
     [AgedFile EXCEPT !.size = NoSize],
     NullElement}

\* what getItem(STORAGE_KEY) may find in a profile that other code or an edit by hand
\* has touched
PersistedItems ==
    {NoItem, EmptyItem, GarbageItem, NotArrayItem, Item(<<>>)}
        \cup {Item(<<e, GoodFile>>) : e \in StoredElements}
        \cup {Item(<<GoodFile, e>>) : e \in StoredElements}

\* a profile with any such item and no provider
InitRead ==
    /\ localStorage \in PersistedItems
    /\ remote = <<>>
    /\ activeProvider = NoProvider
    /\ authenticated = FALSE
    /\ last = Idle
    /\ CloudIdle
    /\ AsyncIdle

\* the methods of the service that read the registry
NextRead ==
    \/ \E input \in SaveInputs : SaveFile(input[1], input[2])
    \/ \E fileName \in Names : LoadFile(fileName)
    \/ ListFiles
    \/ \E fileName \in Names : DeleteFile(fileName)

SpecRead == InitRead /\ [][NextRead]_vars

\* (a slip: the difference is returned as it is)
MaxSecond(a, b) == b

\* Math.max(a, b)
Max(a, b) == IF a >= b THEN a ELSE b

\* the object getStorageInfo builds from the records read
StorageInfo(files) ==
    [used |-> SumSizes(files),
     available |-> Max(0, MAX_TOTAL_SIZE - SumSizes(files)),
     total |-> MAX_TOTAL_SIZE,
     fileCount |-> Len(files)]

\* FileStorageService.getStorageInfo
GetStorageInfo ==
    /\ UNCHANGED cloudVars
    /\ UNCHANGED asyncVars
    /\ LET read == getStoredFiles(localStorage)
       IN  /\ localStorage' = read.store
           /\ last' = [Call("getStorageInfo", "", TextEmpty, "none", "none", FALSE, <<>>)
                       EXCEPT !.info = StorageInfo(read.files)]
    /\ UNCHANGED <<remote, activeProvider, authenticated>>

\* the profile near its quota, and the storage figures the editor asks for
NextInfo ==
    \/ \E input \in SaveInputs : SaveFile(input[1], input[2])
    \/ \E fileName \in ValidNames : DeleteFile(fileName)
    \/ GetStorageInfo

SpecInfo == InitBulk /\ [][NextInfo]_vars

\* a provider whose folder holds several files of one name (the appDataFolder of
\* Google Drive does not keep names unique)
DriveProvider == "googleDrive"

\* listings of such a folder
DupListings ==
    {<<RemoteEntry("a", TextE), RemoteEntry("a", TextMax)>>,
     <<RemoteEntry("a", TextE), RemoteEntry("b", TextE), RemoteEntry("a", TextMax)>>}

\* a fresh profile mirrored to such a folder
InitDup ==
    /\ localStorage = NoItem
    /\ remote \in DupListings
    /\ activeProvider = DriveProvider
    /\ authenticated = TRUE
    /\ last = Idle
    /\ CloudIdle
    /\ AsyncIdle

\* the operations of the service; the user signs in again after a sign-out
NextDup ==
    \/ \E fileName \in ValidNames : SaveFile(fileName, TextE)
    \/ ListFiles
    \/ \E fileName \in ValidNames : DeleteFile(fileName)
    \/ ClearAll
    \/ \E record \in Range(Registry) : UploadLocalOnlyFile(record)
    \/ \E fileName \in ValidNames : DiscardLocalOnlyFile(fileName)
    \/ SignIn

SpecDup == InitDup /\ [][NextDup]_vars

----------------------------------------------------------------------------
(* The two providers at the level of their tokens and requests *)

DropboxProvider == "dropbox"
CloudProviders == {DropboxProvider, DriveProvider}

\* expires_in * 1000 of a grant: response.expires_in, 3600 when the response has none
TOKEN_LIFETIME == 3600 * 1000
\* getAccessToken of GoogleDriveAuthService: expiresAt <= Date.now() + 30_000
EXPIRY_MARGIN == 30000

\* the instants the clock passes: a grant, the margin before its expiry, its expiry
Instants == <<0, TOKEN_LIFETIME - EXPIRY_MARGIN, TOKEN_LIFETIME>>

\* storeToken({ accessToken, expiresAt }); expiresAt 0 stands for null
StoredToken(expiresAt) == [accessToken |-> "token", expiresAt |-> expiresAt]

\* DropboxAuthService: token.expiresAt && Date.now() > token.expiresAt
DropboxExpired(t, time) == t.expiresAt # 0 /\ time > t.expiresAt

\* DropboxAuthService.isAuthenticated()
DropboxIsAuthenticated(t, time) == t.accessToken # "" /\ ~DropboxExpired(t, time)

\* DropboxAuthService.getAccessToken(); "" stands for null
DropboxGetAccessToken(t, time) ==
    IF t.accessToken = "" \/ DropboxExpired(t, time) THEN "" ELSE t.accessToken

\* GoogleDriveAuthService.isAuthenticated(): token.expiresAt && token.expiresAt <= Date.now()
DriveExpired(t, time) == t.expiresAt # 0 /\ t.expiresAt <= time

DriveIsAuthenticated(t, time) == t.accessToken # "" /\ ~DriveExpired(t, time)

\* GoogleDriveAuthService.getAccessToken(): token.expiresAt <= Date.now() + 30_000
DriveExpiring(t, time) == t.expiresAt # 0 /\ t.expiresAt <= time + EXPIRY_MARGIN

DriveGetAccessToken(t, time) ==
    IF t.accessToken = "" \/ DriveExpiring(t, time) THEN "" ELSE t.accessToken

\* isAuthenticated() of the active provider's auth service
IsAuthenticated(t, time) ==
    IF activeProvider = DropboxProvider THEN DropboxIsAuthenticated(t, time)
    ELSE DriveIsAuthenticated(t, time)

\* getAccessToken() of the active provider's auth service
GetAccessToken(t, time) ==
    IF activeProvider = DropboxProvider THEN DropboxGetAccessToken(t, time)
    ELSE DriveGetAccessToken(t, time)

\* the stored token after isAuthenticated(): clearStoredData / clearStoredToken on expiry
TokenAfterIsAuthenticated(t, time) ==
    IF t.accessToken # "" /\ ~IsAuthenticated(t, time) THEN NoToken ELSE t

\* the stored token after getAccessToken()
TokenAfterGetAccessToken(t, time) ==
    IF t.accessToken # "" /\ GetAccessToken(t, time) = "" THEN NoToken ELSE t

\* a file at the provider; Dropbox addresses a file by its path (id 0), Google Drive by
\* its id, and Drive keeps a file that was moved to the bin (trashed)
CloudEntry(id, name, content, trashed) ==
    [id |-> id, name |-> name, content |-> content, trashed |-> trashed]

\* the files a listing reports: filesListFolder; q: trashed = false
Listed(rem) ==
    LET isListed(e) == ~e.trashed
    IN  SelectSeq(rem, isListed)

\* the provider field of an error: CloudSyncError carries one, the errors of the Dropbox
\* SDK and of fetch() do not
ErrorProvider(error) ==
    CASE error = "DropboxSyncError" -> DropboxProvider
      [] error \in {"GoogleDriveSyncError", "CloudSyncError"} -> DriveProvider
      [] OTHER -> NoProvider

\* the record of a call on the provider: thrown is the failure inside the call, error
\* the error the caller receives, calls the requests issued
CloudCall(op, name, content, thrown, error, calls) ==
    Call(op, name, content, thrown, error, FALSE, calls)

\* CloudStorage.isReady(); authenticated keeps what the call returned
CheckReady ==
    /\ UNCHANGED asyncVars
    /\ authenticated' = IsAuthenticated(token, now)
    /\ token' = TokenAfterIsAuthenticated(token, now)
    /\ last' = CloudCall("isReady", "", TextEmpty, "none", "none", <<>>)
    /\ UNCHANGED <<localStorage, remote, activeProvider, now, fileIdCache>>

----------------------------------------------------------------------------
(* DropboxStorageService *)

\* filesUpload({ path, contents, mode: overwrite }): the file at the path is replaced, or
\* created
DropboxUpload(rem, fileName, content) ==
    IF \E i \in 1..Len(rem) : rem[i].name = fileName
    THEN [rem EXCEPT ![FindIndex(rem, fileName)] = CloudEntry(0, fileName, content, FALSE)]
    ELSE Append(rem, CloudEntry(0, fileName, content, FALSE))

\* isPathNotFoundError(error): every error tagged path_lookup or path counts, whatever
\* the reason under it
IsPathNotFoundError(error) == error \in {"path_lookup/not_found", "path_lookup/other"}

\* the failures of a Dropbox request that reaches a file: the request is refused (rate
\* limit, server error, no connection) or the lookup of the path fails for another reason
\* than a missing file
DropboxFaults == {"none", "rejected", "path_lookup/other"}

\* what filesDeleteV2 answers for the file of that name
DeleteAnswer(rem, fileName, fault) ==
    IF fault # "none" THEN fault
    ELSE IF fileName \in NamesOf(rem) THEN "none"
    ELSE "path_lookup/not_found"

DropboxUploadFile(fileName, content) ==
    /\ UNCHANGED asyncVars
    /\ activeProvider = DropboxProvider
    /\ token' = TokenAfterGetAccessToken(token, now)
    /\ UNCHANGED <<localStorage, activeProvider, authenticated, now, fileIdCache>>
    /\ IF GetAccessToken(token, now) = "" THEN
            /\ remote' = remote
            /\ last' = CloudCall("uploadFile", fileName, content, "NoToken",
                                 "DropboxSyncError", <<>>)
       ELSE \E fault \in {"none", "rejected"} :
            IF fault = "none" THEN
                /\ remote' = DropboxUpload(remote, fileName, content)
                /\ last' = CloudCall("uploadFile", fileName, content, "none", "none",
                                     <<"filesUpload">>)
            ELSE
                /\ remote' = remote
                /\ last' = CloudCall("uploadFile", fileName, content, fault,
                                     "DropboxSyncError", <<"filesUpload">>)

DropboxDeleteFile(fileName) ==
    /\ UNCHANGED asyncVars
    /\ activeProvider = DropboxProvider
    /\ token' = TokenAfterGetAccessToken(token, now)
    /\ UNCHANGED <<localStorage, activeProvider, authenticated, now, fileIdCache>>
    /\ IF GetAccessToken(token, now) = "" THEN
            \* no client: the call returns
            /\ remote' = remote
            /\ last' = CloudCall("deleteFile", fileName, TextEmpty, "NoToken", "none", <<>>)
       ELSE \E fault \in DropboxFaults :
            LET answer == DeleteAnswer(remote, fileName, fault)
            IN  IF answer = "none" THEN
                    /\ remote' = DeleteFrom(remote, fileName)
                    /\ last' = CloudCall("deleteFile", fileName, TextEmpty, "none", "none",
                                         <<"filesDeleteV2">>)
                ELSE IF IsPathNotFoundError(answer) THEN
                    /\ remote' = remote
                    /\ last' = CloudCall("deleteFile", fileName, TextEmpty, answer, "none",
                                         <<"filesDeleteV2">>)
                ELSE \* resolvePathByName, then a second filesDeleteV2 on the path found
                    \E resolved \in {r \in BOOLEAN : r => fileName \in NamesOf(remote)},
                       retry \in DropboxFaults :
                        IF ~resolved THEN
                            /\ remote' = remote
                            /\ last' = CloudCall("deleteFile", fileName, TextEmpty, answer,
                                                 "DropboxResponseError",
                                                 <<"filesDeleteV2", "filesListFolder">>)
                        ELSE IF retry = "none" THEN
                            /\ remote' = DeleteFrom(remote, fileName)
                            /\ last' = CloudCall("deleteFile", fileName, TextEmpty, "none",
                                                 "none",
                                                 <<"filesDeleteV2", "filesListFolder",
                                                   "filesDeleteV2">>)
                        ELSE
                            /\ remote' = remote
                            /\ last' = CloudCall("deleteFile", fileName, TextEmpty, retry,
                                                 IF IsPathNotFoundError(retry) THEN "none"
                                                 ELSE "DropboxResponseError",
                                                 <<"filesDeleteV2", "filesListFolder",
                                                   "filesDeleteV2">>)

\* (a slip: the token is left in place)
SignedOutKept(t) == t

\* DropboxAuthService.signOut(): clearStoredData() removes the item of the token
SignedOut(t) == NoToken

DropboxFetchFiles ==
    /\ UNCHANGED asyncVars
    /\ activeProvider = DropboxProvider
    /\ UNCHANGED <<localStorage, remote, activeProvider, authenticated, now, fileIdCache>>
    /\ IF GetAccessToken(token, now) = "" THEN
            \* no client: the call returns an empty list
            /\ token' = TokenAfterGetAccessToken(token, now)
            /\ last' = [CloudCall("fetchFiles", "", TextEmpty, "NoToken", "none", <<>>)
                        EXCEPT !.fetched = <<>>]
       ELSE \/ \* a page of the listing is refused for missing scopes
               /\ token' = SignedOut(token)
               /\ last' = CloudCall("fetchFiles", "", TextEmpty, "missing_scope",
                                    "DropboxSyncError", <<"filesListFolder">>)
            \/ \* a download is refused for missing scopes: the error thrown in the catch
               \* of the download is caught again by the catch of the listing
               /\ remote # <<>>
               /\ token' = SignedOut(token)
               /\ last' = CloudCall("fetchFiles", "", TextEmpty, "missing_scope",
                                    "DropboxSyncError", <<"filesListFolder", "filesDownload">>)
            \/ \* a page of the listing is refused
               /\ token' = token
               /\ last' = CloudCall("fetchFiles", "", TextEmpty, "rejected",
                                    "DropboxSyncError", <<"filesListFolder">>)
            \/ \* every page is read; the downloads at the indexes in skipped fail
               /\ token' = token
               /\ \E skipped \in SUBSET (1..Len(remote)) :
                    last' = [CloudCall("fetchFiles", "", TextEmpty,
                                       IF skipped = {} THEN "none" ELSE "rejected", "none",
                                       <<"filesListFolder", "filesDownload">>)
                             EXCEPT !.fetched = FetchFiles(remote, skipped)]

----------------------------------------------------------------------------
(* GoogleDriveStorageService *)

\* the ids Google Drive gives to files
MaxDriveIds == 2

\* a request of the Drive service: answered, answered with a status that is not ok, or
\* fetch() rejects (no connection)
DriveFaults == {"none", "rejected", "network"}

\* the error the caller receives for a failed request: a response that is not ok is
\* wrapped, a rejected fetch() is not caught
DriveErrorOf(fault) == IF fault = "network" THEN "TypeError" ELSE "GoogleDriveSyncError"

\* ensureAccessToken(): the stored token when getAccessToken() returns one, else the
\* token the user grants when prompted ("" when the request is denied or fails)
EnsuredToken(t, time, granted) ==
    IF GetAccessToken(t, time) # "" THEN t
    ELSE IF granted THEN StoredToken(time + TOKEN_LIFETIME)
    ELSE NoToken

\* the user is prompted only when getAccessToken() returns no token
PromptAnswers(t, time) == IF GetAccessToken(t, time) # "" THEN {TRUE} ELSE BOOLEAN

\* findFileId() sends its query only for a name the cache does not hold
QueryFaults(cache, fileName) == IF cache[fileName] # 0 THEN {"none"} ELSE DriveFaults

\* the files.list query of findFileId: the first file of that name that is not trashed;
\* 0 stands for null
QueryFileId(rem, fileName) ==
    LET k == FindIndex(Listed(rem), fileName)
    IN  IF k = 0 THEN 0 ELSE Listed(rem)[k].id

\* findFileId(): the cached id, else the id the query finds
FindFileId(cache, rem, fileName) ==
    IF cache[fileName] # 0 THEN cache[fileName] ELSE QueryFileId(rem, fileName)

\* the cache after findFileId()
CacheAfterFind(cache, rem, fileName) ==
    IF FindFileId(cache, rem, fileName) # 0
    THEN [cache EXCEPT ![fileName] = FindFileId(cache, rem, fileName)]
    ELSE cache

HasId(rem, id) == \E i \in 1..Len(rem) : rem[i].id = id

\* PATCH upload/drive/v3/files/{fileId}: the content of the file with that id is replaced
DrivePatch(rem, id, content) ==
    [i \in 1..Len(rem) |-> IF rem[i].id = id THEN [rem[i] EXCEPT !.content = content]
                           ELSE rem[i]]

\* DELETE drive/v3/files/{fileId}: the file with that id is removed for good
DriveRemove(rem, id) ==
    LET isOther(e) == e.id # id
    IN  SelectSeq(rem, isOther)

\* the ids no file carries and the cache does not hold
FreshDriveIds(rem, cache) ==
    (1..MaxDriveIds) \ ({rem[i].id : i \in 1..Len(rem)} \cup {cache[n] : n \in ValidNames})

RECURSIVE CacheListed(_, _)
\* fetchFiles: fileIdCache.set(remote.name, remote.id) for every listed file
CacheListed(cache, listed) ==
    IF listed = <<>> THEN cache
    ELSE CacheListed([cache EXCEPT ![Head(listed).name] = Head(listed).id], Tail(listed))

DriveUploadFile(fileName, content) ==
    /\ UNCHANGED asyncVars
    /\ activeProvider = DriveProvider
    /\ UNCHANGED <<localStorage, activeProvider, authenticated, now>>
    /\ \E granted \in PromptAnswers(token, now),
          queryFault \in QueryFaults(fileIdCache, fileName), fault \in DriveFaults :
        LET ensured == EnsuredToken(token, now, granted)
            fileId == FindFileId(fileIdCache, remote, fileName)
        IN  /\ token' = ensured
            /\ IF ensured = NoToken THEN
                    /\ UNCHANGED <<remote, fileIdCache>>
                    /\ last' = CloudCall("uploadFile", fileName, content, "NoToken",
                                         "CloudSyncError", <<>>)
               ELSE IF fileIdCache[fileName] = 0 /\ queryFault # "none" THEN
                    /\ UNCHANGED <<remote, fileIdCache>>
                    /\ last' = CloudCall("uploadFile", fileName, content, queryFault,
                                         DriveErrorOf(queryFault), <<"files.list">>)
               ELSE IF fault # "none" THEN
                    /\ remote' = remote
                    /\ fileIdCache' = CacheAfterFind(fileIdCache, remote, fileName)
                    /\ last' = CloudCall("uploadFile", fileName, content, fault,
                                         DriveErrorOf(fault), <<"upload">>)
               ELSE IF fileId # 0 /\ ~HasId(remote, fileId) THEN
                    \* PATCH on an id that no file carries: 404
                    /\ remote' = remote
                    /\ fileIdCache' = CacheAfterFind(fileIdCache, remote, fileName)
                    /\ last' = CloudCall("uploadFile", fileName, content, "404",
                                         "GoogleDriveSyncError", <<"PATCH">>)
               ELSE IF fileId # 0 THEN
                    /\ remote' = DrivePatch(remote, fileId, content)
                    /\ fileIdCache' = [fileIdCache EXCEPT ![fileName] = fileId]
                    /\ last' = CloudCall("uploadFile", fileName, content, "none", "none",
                                         <<"PATCH">>)
               ELSE \E id \in FreshDriveIds(remote, fileIdCache) :
                    /\ remote' = Append(remote, CloudEntry(id, fileName, content, FALSE))
                    /\ fileIdCache' = [fileIdCache EXCEPT ![fileName] = id]
                    /\ last' = CloudCall("uploadFile", fileName, content, "none", "none",
                                         <<"POST">>)

DriveDeleteFile(fileName) ==
    /\ UNCHANGED asyncVars
    /\ activeProvider = DriveProvider
    /\ UNCHANGED <<localStorage, activeProvider, authenticated, now>>
    /\ token' = TokenAfterGetAccessToken(token, now)
    /\ \E queryFault \in QueryFaults(fileIdCache, fileName), fault \in DriveFaults :
        LET fileId == FindFileId(fileIdCache, remote, fileName)
        IN  IF GetAccessToken(token, now) = "" THEN
                \* no token: the call returns
                /\ UNCHANGED <<remote, fileIdCache>>
                /\ last' = CloudCall("deleteFile", fileName, TextEmpty, "NoToken", "none",
                                     <<>>)
            ELSE IF fileIdCache[fileName] = 0 /\ queryFault # "none" THEN
                /\ UNCHANGED <<remote, fileIdCache>>
                /\ last' = CloudCall("deleteFile", fileName, TextEmpty, queryFault,
                                     DriveErrorOf(queryFault), <<"files.list">>)
            ELSE IF fileId = 0 THEN
                \* no file of that name: the call returns
                /\ UNCHANGED <<remote, fileIdCache>>
                /\ last' = CloudCall("deleteFile", fileName, TextEmpty, "none", "none",
                                     <<"files.list">>)
            ELSE IF fault # "none" THEN
                /\ remote' = remote
                /\ fileIdCache' = CacheAfterFind(fileIdCache, remote, fileName)
                /\ last' = CloudCall("deleteFile", fileName, TextEmpty, fault,
                                     DriveErrorOf(fault), <<"DELETE">>)
            ELSE
                \* the file is removed, or the id is unknown (404): both count as done
                /\ remote' = DriveRemove(remote, fileId)
                /\ fileIdCache' = [fileIdCache EXCEPT ![fileName] = 0]
                /\ last' = CloudCall("deleteFile", fileName, TextEmpty,
                                     IF HasId(remote, fileId) THEN "none" ELSE "404",
                                     "none", <<"DELETE">>)

DriveFetchFiles ==
    /\ UNCHANGED asyncVars
    /\ activeProvider = DriveProvider
    /\ UNCHANGED <<localStorage, remote, activeProvider, authenticated, now>>
    /\ \E granted \in PromptAnswers(token, now), fault \in DriveFaults :
        LET ensured == EnsuredToken(token, now, granted)
        IN  /\ token' = ensured
            /\ IF ensured = NoToken THEN
                    /\ fileIdCache' = fileIdCache
                    /\ last' = CloudCall("fetchFiles", "", TextEmpty, "NoToken",
                                         "CloudSyncError", <<>>)
               ELSE IF fault # "none" THEN
                    \* a page of the listing is refused, or fetch() rejects
                    /\ fileIdCache' = fileIdCache
                    /\ last' = CloudCall("fetchFiles", "", TextEmpty, fault,
                                         DriveErrorOf(fault), <<"files.list">>)
               ELSE \E skipped \in SUBSET (1..Len(Listed(remote))) :
                    \* every page is read; the downloads at the indexes in skipped are
                    \* answered with a status that is not ok
                    /\ fileIdCache' = CacheListed(fileIdCache, Listed(remote))
                    /\ last' = [CloudCall("fetchFiles", "", TextEmpty,
                                          IF skipped = {} THEN "none" ELSE "rejected",
                                          "none", <<"files.list", "download">>)
                                EXCEPT !.fetched = FetchFiles(Listed(remote), skipped)]

----------------------------------------------------------------------------
(* The environment of the providers *)

\* time passes to the next instant
Tick ==
    /\ UNCHANGED asyncVars
    /\ \E k \in 1..(Len(Instants) - 1) : now = Instants[k] /\ now' = Instants[k + 1]
    /\ last' = Idle
    /\ UNCHANGED <<localStorage, remote, activeProvider, authenticated, token, fileIdCache>>

\* the user signs in: the auth service stores the token of the grant, with the expiry the
\* response gives or without one
StoreToken(expires) ==
    /\ UNCHANGED asyncVars
    /\ token = NoToken
    /\ token' = StoredToken(IF expires THEN now + TOKEN_LIFETIME ELSE 0)
    /\ last' = Idle
    /\ UNCHANGED <<localStorage, remote, activeProvider, authenticated, now, fileIdCache>>

\* the page is loaded again: a new GoogleDriveStorageService starts with an empty cache
Reload ==
    /\ UNCHANGED asyncVars
    /\ fileIdCache # NoCache
    /\ fileIdCache' = NoCache
    /\ last' = Idle
    /\ UNCHANGED <<localStorage, remote, activeProvider, authenticated, token, now>>

\* the user moves a file to the bin in Google Drive
OutsideTrash(i) ==
    /\ UNCHANGED asyncVars
    /\ activeProvider = DriveProvider
    /\ ~remote[i].trashed
    /\ remote' = [remote EXCEPT ![i].trashed = TRUE]
    /\ last' = Idle
    /\ UNCHANGED <<localStorage, activeProvider, authenticated, token, now, fileIdCache>>

\* a file is deleted for good outside the service
OutsidePurge(i) ==
    /\ UNCHANGED asyncVars
    /\ remote' = SubSeq(remote, 1, i - 1) \o SubSeq(remote, i + 1, Len(remote))
    /\ last' = Idle
    /\ UNCHANGED <<localStorage, activeProvider, authenticated, token, now, fileIdCache>>

\* a file of a name that is not listed is created outside the service
OutsideCreate(name, content) ==
    /\ UNCHANGED asyncVars
    /\ name \notin NamesOf(Listed(remote))
    /\ \E id \in IF activeProvider = DropboxProvider THEN {0}
                 ELSE FreshDriveIds(remote, fileIdCache) :
            remote' = Append(remote, CloudEntry(id, name, content, FALSE))
    /\ last' = Idle
    /\ UNCHANGED <<localStorage, activeProvider, authenticated, token, now, fileIdCache>>

\* the tokens a profile starts with: none, one without expiry, one of a grant at time 0
InitCloud ==
    /\ localStorage = NoItem
    /\ remote = <<>>
    /\ activeProvider \in CloudProviders
    /\ authenticated = FALSE
    /\ last = Idle
    /\ token \in {NoToken, StoredToken(0), StoredToken(TOKEN_LIFETIME)}
    /\ now = 0
    /\ fileIdCache = NoCache
    /\ AsyncIdle

NextCloud ==
    \/ CheckReady
    \/ \E fileName \in ValidNames, content \in ValidContents :
            DropboxUploadFile(fileName, content)
    \/ \E fileName \in ValidNames : DropboxDeleteFile(fileName)
    \/ DropboxFetchFiles
    \/ \E fileName \in ValidNames, content \in ValidContents :
            DriveUploadFile(fileName, content)
    \/ \E fileName \in ValidNames : DriveDeleteFile(fileName)
    \/ DriveFetchFiles
    \/ Tick
    \/ \E expires \in BOOLEAN : StoreToken(expires)
    \/ Reload
    \/ \E i \in 1..Len(remote) : OutsideTrash(i)
    \/ \E i \in 1..Len(remote) : OutsidePurge(i)
    \/ \E name \in ValidNames : OutsideCreate(name, TextE)

SpecCloud == InitCloud /\ [][NextCloud]_vars

----------------------------------------------------------------------------
(* The component App and its calls on fileStorage *)

\* the calls of the service that read or write the registry
EngineOps ==
    {"listFiles", "saveFile", "deleteFile", "clearAll", "uploadLocalOnlyFile",
     "discardLocalOnlyFile"}

\* calls the model lets the component have in flight at once
MaxInFlight == 3

\* a call that has started; then: what the handler that awaits it does when it settles:
\* "none" (loadSavedFiles sets the lists), "refresh" (the handler awaits loadSavedFiles
\* and then sets isLoading to false), "idle" (the handler sets isLoading to false)
Started(op, then) == [op |-> op, then |-> then]

\* the two effects that call loadSavedFiles
LoadEffects == {"load", "loadWhenConnected"}

Without(s, i) == SubSeq(s, 1, i - 1) \o SubSeq(s, i + 1, Len(s))

AppFrame ==
    UNCHANGED <<localStorage, remote, last, cloudVars, saves, authVars, folderVars, oauthVars>>

\* useEffect(() => { void loadSavedFiles(); }, [loadSavedFiles, activeProvider])
RunEffectLoad ==
    /\ "load" \in effects
    /\ Len(inFlight) < MaxInFlight
    /\ effects' = effects \ {"load"}
    /\ inFlight' = Append(inFlight, Started("listFiles", "none"))
    /\ UNCHANGED <<isLoading, activeProvider, authenticated>>
    /\ AppFrame

\* the effect on [activeProvider, isDropboxConnected, isGoogleConnected, loadSavedFiles]:
\* it returns when the active provider is not connected, else void loadSavedFiles()
RunEffectLoadWhenConnected ==
    /\ "loadWhenConnected" \in effects
    /\ Len(inFlight) < MaxInFlight
    /\ effects' = effects \ {"loadWhenConnected"}
    /\ inFlight' = IF activeProvider # NoProvider /\ ~authenticated THEN inFlight
                   ELSE Append(inFlight, Started("listFiles", "none"))
    /\ UNCHANGED <<isLoading, activeProvider, authenticated>>
    /\ AppFrame

\* the promise of a call settles and the handler that awaits it goes on
Settle(i) ==
    /\ effects = {}
    /\ inFlight' = IF inFlight[i].then = "refresh"
                   THEN Append(Without(inFlight, i), Started("listFiles", "idle"))
                   ELSE Without(inFlight, i)
    /\ isLoading' = IF inFlight[i].then = "idle" THEN FALSE ELSE isLoading
    /\ UNCHANGED <<effects, activeProvider, authenticated>>
    /\ AppFrame

\* a button of the editor, enabled while isLoading is false: saveFile (performSave),
\* deleteFile and clearAllFiles after their confirmation
Click(op) ==
    /\ effects = {}
    /\ ~isLoading
    /\ Len(inFlight) < MaxInFlight
    /\ isLoading' = TRUE
    /\ inFlight' = Append(inFlight, Started(op, IF op = "clearAll" THEN "idle" ELSE "refresh"))
    /\ UNCHANGED <<effects, activeProvider, authenticated>>
    /\ AppFrame

\* handleConflictUpload: await fileStorage.uploadLocalOnlyFile(file), then loadSavedFiles
ConflictUpload ==
    /\ effects = {}
    /\ ~isLoading
    /\ activeProvider # NoProvider /\ authenticated
    /\ Len(inFlight) < MaxInFlight
    /\ isLoading' = TRUE
    /\ inFlight' = Append(inFlight, Started("uploadLocalOnlyFile", "refresh"))
    /\ UNCHANGED <<effects, activeProvider, authenticated>>
    /\ AppFrame

\* handleConflictDiscard: fileStorage.discardLocalOnlyFile(file.name) is not awaited (it
\* has returned when the next statement runs), then await loadSavedFiles()
ConflictDiscard ==
    /\ effects = {}
    /\ ~isLoading
    /\ activeProvider # NoProvider /\ authenticated
    /\ Len(inFlight) < MaxInFlight
    /\ isLoading' = TRUE
    /\ inFlight' = Append(inFlight, Started("listFiles", "idle"))
    /\ UNCHANGED <<effects, activeProvider, authenticated>>
    /\ AppFrame

\* the provider select: setActiveProvider(provider); isReady() of that provider may
\* hold or not; both effects depend on activeProvider
SelectProvider(provider, ready) ==
    /\ effects = {}
    /\ provider # activeProvider
    /\ provider = NoProvider => ~ready
    /\ activeProvider' = provider
    /\ authenticated' = ready
    /\ effects' = LoadEffects
    /\ UNCHANGED <<inFlight, isLoading>>
    /\ AppFrame

\* disconnectDropbox / disconnectGoogleDrive: signOut() and setIs...Connected(false)
Disconnect ==
    /\ effects = {}
    /\ activeProvider # NoProvider /\ authenticated
    /\ authenticated' = FALSE
    /\ effects' = {"loadWhenConnected"}
    /\ UNCHANGED <<inFlight, isLoading, activeProvider>>
    /\ AppFrame

\* the redirect of Dropbox was processed (setIsDropboxConnected(true)), or
\* connectGoogleDrive got its token: setIsGoogleConnected(true) and await loadSavedFiles()
Connect ==
    /\ effects = {}
    /\ activeProvider # NoProvider /\ ~authenticated
    /\ Len(inFlight) < MaxInFlight
    /\ authenticated' = TRUE
    /\ effects' = {"loadWhenConnected"}
    /\ inFlight' = IF activeProvider = DriveProvider
                   THEN Append(inFlight, Started("listFiles", "none"))
                   ELSE inFlight
    /\ UNCHANGED <<isLoading, activeProvider>>
    /\ AppFrame

\* the component after its first render: both effects are scheduled
InitApp ==
    /\ localStorage = NoItem
    /\ remote = <<>>
    /\ activeProvider \in CloudProviders \cup {NoProvider}
    /\ authenticated \in BOOLEAN
    /\ activeProvider = NoProvider => ~authenticated
    /\ last = Idle
    /\ CloudIdle
    /\ inFlight = <<>>
    /\ isLoading = FALSE
    /\ effects = LoadEffects
    /\ saves = <<>>
    /\ AuthIdle
    /\ FolderIdle
    /\ OAuthIdle

NextApp ==
    \/ RunEffectLoad
    \/ RunEffectLoadWhenConnected
    \/ \E i \in 1..Len(inFlight) : Settle(i)
    \/ \E op \in {"saveFile", "deleteFile", "clearAll"} : Click(op)
    \/ ConflictUpload
    \/ ConflictDiscard
    \/ \E provider \in CloudProviders \cup {NoProvider}, ready \in BOOLEAN :
            SelectProvider(provider, ready)
    \/ Disconnect
    \/ Connect

SpecApp == InitApp /\ [][NextApp]_vars

----------------------------------------------------------------------------
(* saveFile step by step: calls that overlap *)

\* saveFile calls the model follows at once
MaxSaves == 2

\* a saveFile call: its arguments, the array `await this.getStoredFiles()` gave it, where
\* it stands ("read": it waits to resume after that await; "upload": it has written and
\* awaits uploadFile; "done": it has returned or thrown), and the error it threw
SaveCall(name, content, existingFiles, pc, outcome) ==
    [name |-> name, content |-> content, existingFiles |-> existingFiles, pc |-> pc,
     outcome |-> outcome]

\* (a slip: the upload is started whether setItem threw or not)
PcAfterWriteAlways(wrote, ready) == IF ready THEN "upload" ELSE "done"

\* after localStorage.setItem: syncToDropbox calls uploadFile when the provider is ready;
\* a setItem that throws leaves the try block
PcAfterWrite(wrote, ready) == IF wrote /\ ready THEN "upload" ELSE "done"

RaceFrame ==
    UNCHANGED <<activeProvider, authenticated, last, cloudVars, appVars, authVars, folderVars,
                oauthVars>>

\* saveFile(fileName, content) up to its first await: the checks of the arguments and the
\* synchronous body of getStoredFiles()
StartSave(fileName, content) ==
    /\ Len(saves) < MaxSaves
    /\ LET read == getStoredFiles(localStorage)
       IN  IF SaveRejected(fileName, content) # "none" THEN
               /\ saves' = Append(saves, SaveCall(fileName, content, <<>>, "done",
                                                  SaveRejected(fileName, content)))
               /\ UNCHANGED localStorage
           ELSE
               /\ saves' = Append(saves, SaveCall(fileName, content, read.files, "read",
                                                  "pending"))
               /\ localStorage' = read.store
    /\ UNCHANGED remote
    /\ RaceFrame

\* the call resumes after the await: total-limit check, file object, setItem, and the
\* call of syncToDropbox up to its await of uploadFile
ResumeSave(i) ==
    /\ saves[i].pc = "read"
    /\ LET c == saves[i]
           settled(pc, outcome) == [saves EXCEPT ![i].pc = pc, ![i].outcome = outcome]
       IN  IF ExceedsTotal(c.existingFiles, c.name, BlobSize(c.content)) THEN
               /\ saves' = settled("done", SaveFileCatch("StorageLimitExceeded"))
               /\ UNCHANGED localStorage
           ELSE
               \/ \* localStorage.setItem throws QuotaExceededError
                  /\ saves' = settled(PcAfterWrite(FALSE, IsReady),
                                      SaveFileCatch("QuotaExceededError"))
                  /\ UNCHANGED localStorage
               \/ \* the write succeeds
                  /\ \E newId \in IF FindIndex(c.existingFiles, c.name) # 0 THEN {0}
                                  ELSE FreshIds(c.existingFiles) :
                        localStorage' = Item(UpdateOrAdd(c.existingFiles,
                                            FileObject(c.existingFiles, c.name, c.content, newId)))
                  /\ saves' = settled(PcAfterWrite(TRUE, IsReady),
                                      IF IsReady THEN "pending" ELSE "none")
    /\ UNCHANGED remote
    /\ RaceFrame

\* uploadFile settles: the file is on the provider, or the call threw and the catch of
\* syncToDropbox logged the error; saveFile returns
SettleUpload(i) ==
    /\ saves[i].pc = "upload"
    /\ \/ remote' = UploadInto(remote, saves[i].name, saves[i].content)
       \/ remote' = remote
    /\ saves' = [saves EXCEPT ![i].pc = "done",
                              ![i].outcome = SaveFileCatch(syncToDropbox("DropboxSyncError"))]
    /\ UNCHANGED localStorage
    /\ RaceFrame

\* the callers have taken the outcomes of their calls
ForgetSaves ==
    /\ saves # <<>>
    /\ \A i \in 1..Len(saves) : saves[i].pc = "done"
    /\ saves' = <<>>
    /\ UNCHANGED <<localStorage, remote>>
    /\ RaceFrame

\* the arguments of the calls that overlap
RaceInputs == (ValidNames \X ValidContents) \cup {<<"", TextE>>}

InitRace ==
    /\ localStorage = NoItem
    /\ remote = <<>>
    /\ activeProvider \in Providers \cup {NoProvider}
    /\ authenticated \in BOOLEAN
    /\ activeProvider = NoProvider => ~authenticated
    /\ last = Idle
    /\ CloudIdle
    /\ AsyncIdle

NextRace ==
    \/ \E input \in RaceInputs : StartSave(input[1], input[2])
    \/ \E i \in 1..Len(saves) : ResumeSave(i)
    \/ \E i \in 1..Len(saves) : SettleUpload(i)
    \/ ForgetSaves

SpecRace == InitRace /\ [][NextRace]_vars

----------------------------------------------------------------------------
(* GoogleDriveAuthService.ensureAccessToken: calls that overlap *)

\* ensureAccessToken calls the model follows
MaxPromises == 3

AuthFrame ==
    UNCHANGED <<localStorage, remote, activeProvider, authenticated, last, now, fileIdCache,
                appVars, saves, folderVars, oauthVars>>

\* ensureAccessToken(): the stored token when getAccessToken() returns one; else a new
\* promise whose executor sets tokenClient.callback to its own resolve / reject and calls
\* requestAccessToken, which may throw (the promise is then rejected at once)
EnsureAccessToken ==
    /\ Len(promises) < MaxPromises
    /\ IF DriveGetAccessToken(token, now) # "" THEN
            /\ promises' = Append(promises, "resolved")
            /\ UNCHANGED <<token, callback, requests>>
       ELSE
            /\ token' = TokenAfterGetAccessToken(token, now)
            /\ callback' = Len(promises) + 1
            /\ \/ /\ promises' = Append(promises, "waiting")
                  /\ requests' = requests + 1
               \/ /\ promises' = Append(promises, "rejected")
                  /\ requests' = requests
    /\ AuthFrame

\* the promise the call of tokenClient.callback leaves behind: resolve and reject have
\* no effect on a promise that has settled
Settled(state, outcome) == IF state = "waiting" THEN outcome ELSE state

\* the Google token client answers a request: it calls tokenClient.callback(response),
\* the function the last ensureAccessToken installed
DeliverResponse(error) ==
    /\ requests > 0
    /\ requests' = requests - 1
    /\ token' = IF error THEN token ELSE StoredToken(now + TOKEN_LIFETIME)
    /\ promises' = [promises EXCEPT ![callback] =
                        Settled(@, IF error THEN "rejected" ELSE "resolved")]
    /\ UNCHANGED callback
    /\ AuthFrame

\* signOut(): clearStoredToken()
AuthSignOut ==
    /\ token # NoToken
    /\ token' = NoToken
    /\ UNCHANGED authVars
    /\ AuthFrame

InitAuth ==
    /\ localStorage = NoItem
    /\ remote = <<>>
    /\ activeProvider = DriveProvider
    /\ authenticated = FALSE
    /\ last = Idle
    /\ token \in {NoToken, StoredToken(TOKEN_LIFETIME)}
    /\ now = 0
    /\ fileIdCache = NoCache
    /\ AsyncIdle

NextAuth ==
    \/ EnsureAccessToken
    \/ \E error \in BOOLEAN : DeliverResponse(error)
    \/ AuthSignOut
    \/ Tick

SpecAuth == InitAuth /\ [][NextAuth]_vars

\* the token client answers every request it was given
SpecAuthLive == SpecAuth /\ WF_vars(\E error \in BOOLEAN : DeliverResponse(error))

----------------------------------------------------------------------------
(* GoogleDriveStorageService.ensureFolderId: calls that overlap *)

\* ensureFolderId calls the model follows
MaxFolderCalls == 5

\* an ensureFolderId call: the attempt (the promise, named by the call that created it)
\* it awaits, 0 when it returned this.folderId; state: "pending", "resolved", "rejected";
\* id: the folder id it returned
FolderCall(attempt, state, id) == [attempt |-> attempt, state |-> state, id |-> id]

\* (a slip: the promise is kept after it has settled)
AfterFinallyKept(settled) == settled

\* finally { this.folderIdPromise = null }: the call that created the promise awaits it
\* first, so its finally block runs before any other code sees the settled promise
AfterFinally(settled) == NoPromise

\* the calls after the promise of that attempt has settled
Answered(calls, attempt, state, id) ==
    [i \in 1..Len(calls) |->
        IF calls[i].attempt = attempt /\ calls[i].state = "pending"
        THEN FolderCall(attempt, state, id) ELSE calls[i]]

FolderFrame == UNCHANGED <<serviceVars, cloudVars, appVars, saves, authVars, oauthVars>>

\* ensureFolderId(token) up to its first await
CallEnsureFolderId ==
    /\ Len(folderCalls) < MaxFolderCalls
    /\ IF folderId # 0 THEN
            /\ folderCalls' = Append(folderCalls, FolderCall(0, "resolved", folderId))
            /\ UNCHANGED folderIdPromise
       ELSE IF folderIdPromise # NoPromise THEN
            /\ folderCalls' = Append(folderCalls,
                    FolderCall(folderIdPromise.attempt,
                               IF folderIdPromise.pc = "rejected" THEN "rejected" ELSE "pending",
                               0))
            /\ UNCHANGED folderIdPromise
       ELSE
            /\ folderIdPromise' = [attempt |-> Len(folderCalls) + 1, pc |-> "lookup"]
            /\ folderCalls' = Append(folderCalls,
                    FolderCall(Len(folderCalls) + 1, "pending", 0))
    /\ UNCHANGED <<folderId, driveFolders>>
    /\ FolderFrame

\* the files.list request of the lookup is answered: not ok (the promise rejects), a
\* folder (folderId is set, the promise resolves), or none (the POST that creates the
\* folder is sent)
LookupAnswered(ok) ==
    /\ folderIdPromise.pc = "lookup"
    /\ IF ~ok THEN
            /\ folderIdPromise' = AfterFinally([folderIdPromise EXCEPT !.pc = "rejected"])
            /\ folderCalls' = Answered(folderCalls, folderIdPromise.attempt, "rejected", 0)
            /\ UNCHANGED folderId
       ELSE IF driveFolders # <<>> THEN
            /\ folderId' = driveFolders[1]
            /\ folderIdPromise' = AfterFinally([folderIdPromise EXCEPT !.pc = "resolved"])
            /\ folderCalls' =
                    Answered(folderCalls, folderIdPromise.attempt, "resolved", driveFolders[1])
       ELSE
            /\ folderIdPromise' = [folderIdPromise EXCEPT !.pc = "create"]
            /\ UNCHANGED <<folderId, folderCalls>>
    /\ UNCHANGED driveFolders
    /\ FolderFrame

\* the POST that creates the folder is answered: not ok (the promise rejects), or the id
\* of the new folder (folderId is set, the promise resolves)
CreateAnswered(ok) ==
    /\ folderIdPromise.pc = "create"
    /\ IF ~ok THEN
            /\ folderIdPromise' = AfterFinally([folderIdPromise EXCEPT !.pc = "rejected"])
            /\ folderCalls' = Answered(folderCalls, folderIdPromise.attempt, "rejected", 0)
            /\ UNCHANGED <<folderId, driveFolders>>
       ELSE
            /\ driveFolders' = Append(driveFolders, Len(driveFolders) + 1)
            /\ folderId' = Len(driveFolders) + 1
            /\ folderIdPromise' = AfterFinally([folderIdPromise EXCEPT !.pc = "resolved"])
            /\ folderCalls' =
                    Answered(folderCalls, folderIdPromise.attempt, "resolved",
                             Len(driveFolders) + 1)
    /\ FolderFrame

\* the page is loaded again: a new service, with no folder id and no promise
FolderReload ==
    /\ folderIdPromise = NoPromise
    /\ folderCalls # <<>>
    /\ folderId' = 0
    /\ folderCalls' = <<>>
    /\ UNCHANGED <<folderIdPromise, driveFolders>>
    /\ FolderFrame

InitFolder ==
    /\ localStorage = NoItem
    /\ remote = <<>>
    /\ activeProvider = DriveProvider
    /\ authenticated = TRUE
    /\ last = Idle
    /\ CloudIdle
    /\ AppIdle /\ saves = <<>> /\ AuthIdle /\ OAuthIdle
    /\ folderId = 0
    /\ folderIdPromise = NoPromise
    /\ folderCalls = <<>>
    /\ driveFolders \in {<<>>, <<1>>}

NextFolder ==
    \/ CallEnsureFolderId
    \/ \E ok \in BOOLEAN : LookupAnswered(ok)
    \/ \E ok \in BOOLEAN : CreateAnswered(ok)
    \/ FolderReload

SpecFolder == InitFolder /\ [][NextFolder]_vars

----------------------------------------------------------------------------
(* DropboxAuthService: the redirect of the authorization *)

\* the values crypto.randomUUID() gives to the state, and generateCodeVerifier() to the
\* code verifier
StateValues == {1, 2}
Verifiers == {1, 2}

OAuthFrame ==
    UNCHANGED <<localStorage, remote, activeProvider, authenticated, last, now, fileIdCache,
                appVars, saves, authVars, folderVars>>

\* startAuthentication(): the state is saved, beginPkceAuthentication saves the code
\* verifier and sends the browser to Dropbox
StartAuthentication ==
    /\ \E state \in StateValues, verifier \in Verifiers :
            /\ sessionState' = state
            /\ codeVerifier' = verifier
    /\ UNCHANGED <<token, redirect>>
    /\ OAuthFrame

\* getAccessTokenFromCode(redirectUri, code): Dropbox exchanges a code only with the
\* verifier of the challenge the code was issued for; a code is named by that verifier
ExchangeAccepted(code, verifier) == code = verifier

\* the state check of processRedirectResult
StateMismatch(state, storedState) == state # 0 /\ storedState # 0 /\ state # storedState

\* processRedirectResult() on a URL whose query holds code= or error=
ProcessRedirectResult(state, code, error) ==
    /\ code # 0 \/ error
    /\ sessionState' = 0
    /\ IF StateMismatch(state, sessionState) \/ error THEN
            /\ redirect' = Redirect(state, code, error, sessionState, "error")
            /\ UNCHANGED <<token, codeVerifier>>
       ELSE
            /\ codeVerifier' = 0
            /\ IF codeVerifier = 0 THEN
                    /\ redirect' = Redirect(state, code, error, sessionState, "error")
                    /\ UNCHANGED token
               ELSE \/ \* the exchange returns the tokens
                       /\ ExchangeAccepted(code, codeVerifier)
                       /\ token' = StoredToken(now + TOKEN_LIFETIME)
                       /\ redirect' = Redirect(state, code, error, sessionState, "success")
                    \/ \* the exchange throws
                       /\ redirect' = Redirect(state, code, error, sessionState, "error")
                       /\ UNCHANGED token
    /\ OAuthFrame

\* signOut(): clearStoredData()
OAuthSignOut ==
    /\ token # NoToken \/ sessionState # 0 \/ codeVerifier # 0
    /\ token' = SignedOut(token)
    /\ sessionState' = 0
    /\ codeVerifier' = 0
    /\ UNCHANGED redirect
    /\ OAuthFrame

InitOAuth ==
    /\ localStorage = NoItem
    /\ remote = <<>>
    /\ activeProvider = DropboxProvider
    /\ authenticated = FALSE
    /\ last = Idle
    /\ CloudIdle
    /\ AsyncIdle

NextOAuth ==
    \/ StartAuthentication
    \/ \E state \in {0} \cup StateValues, code \in {0} \cup Verifiers, error \in BOOLEAN :
            ProcessRedirectResult(state, code, error)
    \/ OAuthSignOut

SpecOAuth == InitOAuth /\ [][NextOAuth]_vars

----------------------------------------------------------------------------
(* Save and load *)

\* the registry holds a record of that name with exactly that content
Holds(fileName, content) ==
    /\ FindIndex(Registry, fileName) # 0
    /\ LoadContent(Registry, fileName) = content

\* C1: a loadFile(name) that directly follows a saveFile(name, content) that wrote the
\* registry (name and content valid; no provider, upload succeeded or upload failed)
\* returns normally, and returns exactly content
C1_SaveThenLoad ==
    [][\A fileName \in Names :
            (last.op = "saveFile" /\ last.wrote /\ last.name = fileName /\ LoadFile(fileName))
                => (last'.error = "none" /\ last'.content = last.content)]_vars

\* a saveFile whose upload failed has written the largest content over another one
C1_Witness ==
    /\ last.op = "saveFile" /\ last.wrote
    /\ last.thrown = "DropboxSyncError"
    /\ last.content = TextMax
    /\ Holds(last.name, TextMax)
    /\ Len(Registry) = 2

\* C2: when the provider is ready and uploadFile throws during saveFile, the record is
\* in the registry with the new content and the caller receives the sync error; when
\* uploadFile succeeds the caller receives no error
C2_UploadFailurePropagates ==
    (last.op = "saveFile" /\ last.calls = <<"uploadFile">>) =>
        /\ Holds(last.name, last.content)
        /\ last.thrown = "DropboxSyncError" => last.error = "DropboxSyncError"
        /\ last.thrown = "none" => last.error = "none"

----------------------------------------------------------------------------
(* The reconciliation pass *)

\* listFiles ran a pass whose fetchFiles returned a list
PassDone ==
    /\ last.op = "listFiles"
    /\ "fetchFiles" \in Range(last.calls)
    /\ last.thrown = "none"

\* listFiles ran a pass whose fetchFiles threw
PassFailed ==
    /\ last.op = "listFiles"
    /\ "fetchFiles" \in Range(last.calls)
    /\ last.thrown = "CloudSyncError"

Indexes(fs, name) == {i \in 1..Len(fs) : fs[i].name = name}

\* the file of that name at the provider
RemoteFile(name) == remote[FindIndex(remote, name)]

\* fs holds exactly one record of that name, and it carries the provider's content and
\* byte count and the tag of the active provider
MirrorsRemote(fs, name) ==
    /\ Cardinality(Indexes(fs, name)) = 1
    /\ \A i \in Indexes(fs, name) :
            /\ fs[i].content = RemoteFile(name).content
            /\ fs[i].size = BlobSize(RemoteFile(name).content)
            /\ fs[i].syncedProvider = activeProvider

----------------------------------------------------------------------------
(* Quotas and validation *)

\* the length of a text in bytes
ByteLength(t) == t.n * Utf8Width(t.ch)

\* the arguments pass the validation of name, content and per-file limit
ValidArguments(fileName, content) ==
    /\ fileName \notin {"", " "}
    /\ content.n > 0 /\ content.ch # " "
    /\ ByteLength(content) <= MAX_FILE_SIZE

\* C8: a saveFile of valid arguments whose name is not in the registry, when the sizes
\* in the registry plus the byte length of the content exceed the total limit, fails,
\* leaves the persisted registry as it was and issues no uploadFile
C8_NewNameOverTotalRejected ==
    [][\A fileName \in ValidNames, content \in ValidContents :
            (/\ last'.op = "saveFile" /\ last'.name = fileName
             /\ ValidArguments(fileName, content)
             /\ fileName \notin NamesOf(Registry)
             /\ SumSizes(Registry) + ByteLength(content) > MAX_TOTAL_SIZE
             /\ SaveFile(fileName, content))
                => (/\ last'.error # "none"
                    /\ localStorage' = localStorage
                    /\ remote' = remote
                    /\ "uploadFile" \notin Range(last'.calls))]_vars

\* with a ready provider, a new name was refused over a registry of more than NumBulk
\* records
C8_Witness ==
    /\ last.op = "saveFile"
    /\ last.thrown = "StorageLimitExceeded"
    /\ ~last.wrote
    /\ IsReady
    /\ Len(Registry) > NumBulk
    /\ last.name \notin NamesOf(Registry)

\* C9: a saveFile of valid arguments on a name that is in the registry is never refused
\* by the total-size check, whatever the size of the new content (overwrites can so
\* bring the sum of the sizes above the total limit)
C9_OverwriteSkipsTotalCheck ==
    [][\A fileName \in ValidNames, content \in ValidContents :
            (/\ last'.op = "saveFile" /\ last'.name = fileName
             /\ ValidArguments(fileName, content)
             /\ fileName \in NamesOf(Registry)
             /\ SaveFile(fileName, content))
                => last'.thrown # "StorageLimitExceeded"]_vars

\* an overwrite has brought the sum of the sizes above the total limit
C9_Witness ==
    /\ last.op = "saveFile" /\ last.wrote
    /\ last.content = TextMax
    /\ SumSizes(Registry) > MAX_TOTAL_SIZE

\* C10: a saveFile with a blank name, a blank content or a content of more bytes than
\* the per-file limit fails, leaves the persisted registry as it was and calls no
\* provider
C10_InvalidArgumentsRejected ==
    [][\A input \in SaveInputs :
            (/\ last'.op = "saveFile"
             /\ ~ValidArguments(input[1], input[2])
             /\ SaveFile(input[1], input[2]))
                => (/\ last'.error # "none"
                    /\ localStorage' = localStorage
                    /\ remote' = remote
                    /\ last'.calls = <<>>)]_vars

\* a content was refused for its size while the registry held records and the
\* provider was ready
C10_Witness ==
    /\ last.op = "saveFile"
    /\ last.thrown = "FileSizeExceeds"
    /\ Registry # <<>>
    /\ IsReady

----------------------------------------------------------------------------
(* The registry as a set of records *)

RecordOf(fs, name) == fs[FindIndex(fs, name)]

\* the step wrote the record of that name: a saveFile of the name, or a pass, which
\* writes the merged set
WritesName(name) ==
    /\ last'.wrote
    /\ \/ last'.op = "saveFile" /\ last'.name = name
       \/ last'.op \in {"listFiles", "uploadLocalOnlyFile"}

\* C12: the record a saveFile writes has the content passed and, as size, the length of
\* that content in bytes; content and size of a record stay as they are in every step
\* that is not a write of its name
C12_SizeIsByteLength ==
    [][/\ (last'.op = "saveFile" /\ last'.wrote) =>
            /\ last'.name \in NamesOf(localStorage'.files)
            /\ RecordOf(localStorage'.files, last'.name).content = last'.content
            /\ RecordOf(localStorage'.files, last'.name).size = ByteLength(last'.content)
       /\ (localStorage' # localStorage) =>
            \A name \in NamesOf(localStorage.files) \cap NamesOf(localStorage'.files) :
                ~WritesName(name) =>
                    /\ RecordOf(localStorage'.files, name).content
                            = RecordOf(localStorage.files, name).content
                    /\ RecordOf(localStorage'.files, name).size
                            = RecordOf(localStorage.files, name).size]_vars

\* a saveFile wrote a content of one character and two bytes next to another record
C12_Witness ==
    /\ last.op = "saveFile" /\ last.wrote
    /\ last.content = TextE
    /\ CharLength(last.content) = 1
    /\ RecordOf(localStorage.files, last.name).size = 2
    /\ Len(localStorage.files) = 2

----------------------------------------------------------------------------
(* The syncedProvider tag *)

\* every tagged record names the active provider and is in the fetched list with the
\* content the registry holds
TagsMatchReport ==
    \A i \in 1..Len(localStorage.files) :
        localStorage.files[i].syncedProvider # NoProvider =>
            /\ localStorage.files[i].syncedProvider = activeProvider
            /\ \E k \in 1..Len(last.fetched) :
                    /\ last.fetched[k].name = localStorage.files[i].name
                    /\ last.fetched[k].content = localStorage.files[i].content

NoTags ==
    \A i \in 1..Len(localStorage.files) :
        localStorage.files[i].syncedProvider = NoProvider

----------------------------------------------------------------------------
(* clearAll and deleteFile *)

\* C14: clearAll empties the registry and issues no delete or clear call to the
\* provider: the files the provider held before the call are the files it holds after
C14_ClearAllKeepsRemote ==
    [][last'.op = "clearAll" =>
            /\ getStoredFiles(localStorage').files = <<>>
            /\ last'.calls = <<>>
            /\ remote' = remote]_vars

\* C15: a deleteFile of a name that is in the registry returns without error and
\* removes the record of that name and no other, also when the provider's deleteFile
\* throws
C15_DeleteRemovesOneRecord ==
    [][\A fileName \in ValidNames :
            (/\ last'.op = "deleteFile" /\ last'.name = fileName
             /\ fileName \in NamesOf(localStorage.files)
             /\ DeleteFile(fileName))
                => (/\ last'.error = "none"
                    /\ fileName \notin NamesOf(localStorage'.files)
                    /\ Len(localStorage'.files) = Len(localStorage.files) - 1
                    /\ \A i \in 1..Len(localStorage.files) :
                            localStorage.files[i].name # fileName =>
                                localStorage.files[i] \in Range(localStorage'.files))]_vars

\* the provider's deleteFile threw: the record is gone from the registry, the file is
\* still at the provider, the caller got no error
C15_Witness ==
    /\ last.op = "deleteFile"
    /\ last.thrown = "CloudSyncError" /\ last.error = "none"
    /\ last.name \notin NamesOf(localStorage.files)
    /\ last.name \in NamesOf(remote)
    /\ \E name \in ValidNames : name \in NamesOf(localStorage.files)

\* C16: loadFile and deleteFile of a name that is not in the registry fail with the
\* not-found error; that deleteFile leaves the registry as it was and calls no
\* deleteFile of the provider
C16_AbsentNameNotFound ==
    [][\A fileName \in ValidNames :
            (/\ last'.op \in {"loadFile", "deleteFile"}
             /\ fileName \notin NamesOf(localStorage.files))
                => (/\ LoadFile(fileName) => last'.error = "NotFound"
                    /\ DeleteFile(fileName) =>
                            /\ last'.error = "NotFound"
                            /\ localStorage' = localStorage
                            /\ last'.calls = <<>>
                            /\ remote' = remote)]_vars

\* a deleteFile of a name the provider holds and the registry does not was refused
\* while the provider was ready
C16_Witness ==
    /\ last.op = "deleteFile"
    /\ last.error = "NotFound"
    /\ IsReady
    /\ last.name \in NamesOf(remote)
    /\ last.name \notin NamesOf(localStorage.files)
    /\ localStorage.files # <<>>

UploadSucceeded(call) ==
    call.op = "uploadLocalOnlyFile" /\ call.calls = <<"uploadFile", "fetchFiles">>

\* the listFiles result names the file, tagged with the active provider, and lists no
\* conflict for it
ListedAsSynced(call, name) ==
    /\ \E i \in 1..Len(call.files) :
            call.files[i].name = name /\ call.files[i].syncedProvider = activeProvider
    /\ \A i \in 1..Len(call.files) :
            call.files[i].name = name => call.files[i].syncedProvider = activeProvider
    /\ name \notin NamesOf(call.conflicts)

\* an uploadLocalOnlyFile while no provider is ready fails with a CloudSyncError and
\* changes neither the registry nor the provider's files
UploadRefusedWhenNotReady ==
    (last'.op = "uploadLocalOnlyFile" /\ ~IsReady) =>
        /\ last'.error = "CloudSyncError"
        /\ last'.calls = <<>>
        /\ localStorage' = localStorage
        /\ remote' = remote

C20_NotReadyListsLocal ==
    [][(last'.op = "listFiles" /\ ~IsReady) =>
            /\ last'.files = localStorage.files
            /\ last'.conflicts = <<>>
            /\ last'.calls = <<>>
            /\ last'.error = "none"
            /\ localStorage' = localStorage
            /\ remote' = remote
            /\ (last.op = "saveFile" /\ last.wrote /\ Len(localStorage.files) = 1) =>
                    /\ Len(last'.files) = 1
                    /\ last'.files[1].name = last.name
                    /\ last'.files[1].content = last.content]_vars

\* no provider configured: listFiles() returned the one file of the registry, untagged
C20_Witness ==
    /\ last.op = "listFiles"
    /\ activeProvider = NoProvider
    /\ last.calls = <<>>
    /\ last.conflicts = <<>>
    /\ Len(last.files) = 1
    /\ last.files = localStorage.files
    /\ last.files[1].syncedProvider = NoProvider

----------------------------------------------------------------------------
(* Saving without a provider *)

\* C21: while no provider is configured or signed in, a saveFile issues no uploadFile,
\* leaves the provider's files alone and raises no sync error; with valid arguments it
\* fails only when the registry refuses the write (total limit, host quota), and
\* otherwise it returns without error with the record in the registry
C21_NotReadySavesLocally ==
    [][\A fileName \in ValidNames, content \in ValidContents :
            (/\ last'.op = "saveFile" /\ last'.name = fileName
             /\ (activeProvider = NoProvider \/ ~authenticated)
             /\ ValidArguments(fileName, content)
             /\ SaveFile(fileName, content))
                => (/\ last'.calls = <<>>
                    /\ remote' = remote
                    /\ last'.thrown \in {"none", "StorageLimitExceeded", "QuotaExceededError"}
                    /\ last'.thrown = "none" =>
                            /\ last'.error = "none"
                            /\ last'.content = content =>
                                    /\ fileName \in NamesOf(localStorage'.files)
                                    /\ RecordOf(localStorage'.files, fileName).content = content
                    /\ (last'.thrown = "StorageLimitExceeded") =
                            (/\ fileName \notin NamesOf(Registry)
                             /\ SumSizes(Registry) + ByteLength(content) > MAX_TOTAL_SIZE))]_vars

\* a provider is configured and signed out: a saveFile stored a new record and made no
\* provider call
C21_Witness ==
    /\ last.op = "saveFile" /\ last.wrote /\ last.error = "none"
    /\ activeProvider # NoProvider /\ ~authenticated
    /\ last.calls = <<>>
    /\ remote = <<>>
    /\ last.name \in NamesOf(localStorage.files)
    /\ RecordOf(localStorage.files, last.name).content = last.content

----------------------------------------------------------------------------
(* Repeating a pass *)

\* the call was a listFiles() whose pass fetched the provider's files
ListedWithFetch(call) ==
    /\ call.op = "listFiles"
    /\ call.calls = <<"fetchFiles">>
    /\ call.thrown = "none"

----------------------------------------------------------------------------
(* The provider contract *)

ProviderOps == {"uploadFile", "deleteFile", "fetchFiles"}

\* C23: a call of uploadFile, deleteFile or fetchFiles on either provider that meets a
\* failure (no usable token, a request refused or not answered) raises an error whose
\* provider field names the provider; the one failure that may end as a success is a
\* deleteFile of a name the provider lists no file for
C23_FailuresRaiseTaggedError ==
    [][last'.op \in ProviderOps =>
            /\ last'.error # "none" => ErrorProvider(last'.error) = activeProvider
            /\ (last'.thrown # "none" /\ last'.error = "none") =>
                    /\ last'.op = "deleteFile"
                    /\ last'.name \notin NamesOf(Listed(remote))]_vars

\* C24: the list a fetchFiles of either provider returns holds one record, with its
\* content, for every file the provider lists: a fetchFiles that met a failed page
\* request or a failed download does not return a list
C24_FetchReturnsEveryFile ==
    [][(last'.op = "fetchFiles" /\ last'.error = "none") =>
            /\ Len(last'.fetched) = Len(Listed(remote))
            /\ \A i \in 1..Len(last'.fetched) :
                    /\ last'.fetched[i].name = Listed(remote)[i].name
                    /\ last'.fetched[i].content = Listed(remote)[i].content]_vars

\* the places of the files of that name in what the provider lists
ListedAs(rem, name) == {i \in 1..Len(Listed(rem)) : Listed(rem)[i].name = name}

\* C25: after an uploadFile(name, content) that returned without error, on either
\* provider and whatever happened to the files outside the service before, the provider
\* lists exactly one file of that name and its content is content; the same uploadFile
\* repeated at once leaves the provider's files as they were
C25_UploadCreatesOrReplaces ==
    [][(last'.op = "uploadFile" /\ last'.error = "none") =>
            /\ Cardinality(ListedAs(remote', last'.name)) = 1
            /\ \A i \in ListedAs(remote', last'.name) :
                    Listed(remote')[i].content = last'.content
            /\ (/\ last.op = "uploadFile" /\ last.error = "none"
                /\ last.name = last'.name /\ last.content = last'.content) =>
                    remote' = remote]_vars

\* C26: on either provider a deleteFile(name) of a name the provider lists no file for
\* returns without error (when its requests are answered), and after every deleteFile(name)
\* that returned without error the provider lists no file of that name
C26_DeleteLeavesNoFile ==
    [][last'.op = "deleteFile" =>
            /\ (/\ last'.name \notin NamesOf(Listed(remote))
                /\ last'.thrown \notin {"rejected", "network", "path_lookup/other"}) =>
                    last'.error = "none"
            /\ last'.error = "none" => last'.name \notin NamesOf(Listed(remote'))]_vars

\* C27: when isReady() of a provider has just returned true, getAccessToken() of its
\* auth service returns a token at the same instant: an operation attempted then is
\* neither skipped nor made to ask the user for a new grant
C27_ReadyMeansToken ==
    (last.op = "isReady" /\ authenticated) => GetAccessToken(token, now) # ""

----------------------------------------------------------------------------
(* The local registry *)

\* the failures of saveFile that come from its validation
ValidationErrors ==
    {"FileNameRequired", "FileContentRequired", "FileSizeExceeds", "StorageLimitExceeded"}

\* C28: a saveFile that failed one of its validations (blank name, blank content, the
\* per-file limit, the total limit on a new name) does not give the caller the error
\* that a rejected write of the host storage gives
C28_ValidationErrorIsNotQuotaError ==
    (last.op = "saveFile" /\ last.thrown \in ValidationErrors) =>
        last.error # SaveFileCatch("QuotaExceededError")

\* the record of name n keeps its id and its createdAt over the step
KeepsIdentity(n) ==
    /\ n \in NamesOf(Registry')
    /\ RecordOf(Registry', n).id = RecordOf(Registry, n).id
    /\ RecordOf(Registry', n).createdAt = RecordOf(Registry, n).createdAt

\* the record of name n is new after the step: no record of the registry before the
\* step carried its id, and its createdAt is the time of the call
CreatedAfresh(n) ==
    /\ n \in NamesOf(Registry')
    /\ \A i \in 1..Len(Registry) : Registry[i].id # RecordOf(Registry', n).id
    /\ RecordOf(Registry', n).createdAt = Timestamp

\* C29: a record keeps its id and createdAt over every call but a deleteFile of its
\* name, a saveFile on the name included; a saveFile that stores a name the registry
\* does not hold gives the record a fresh id and a fresh createdAt
C29_OverwriteKeepsIdentity ==
    [][\A n \in ValidNames :
            /\ (n \in NamesOf(Registry) /\ ~(last'.op = "deleteFile" /\ last'.name = n)) =>
                    KeepsIdentity(n)
            /\ (/\ n \notin NamesOf(Registry)
                /\ last'.op = "saveFile" /\ last'.wrote /\ last'.name = n) =>
                    CreatedAfresh(n)]_vars

\* the file of the earlier session was overwritten and kept its id and createdAt, and a
\* file created in this session stands next to it
C29_Witness ==
    /\ last.op = "saveFile" /\ last.wrote /\ last.name = "a" /\ last.content = TextMax
    /\ NamesOf(Registry) = {"a", "b"}
    /\ RecordOf(Registry, "a").content = TextMax
    /\ RecordOf(Registry, "a").id = AgedFile.id
    /\ RecordOf(Registry, "a").createdAt = Earlier
    /\ RecordOf(Registry, "b").createdAt = Timestamp

\* the call got past the checks of its arguments and read the registry
ReadsRegistry(call) ==
    /\ call.op \in {"saveFile", "loadFile", "listFiles", "deleteFile"}
    /\ call.thrown \notin {"FileNameRequired", "FileContentRequired", "FileSizeExceeds"}

\* the element has id, name, content, createdAt and size
HasAllFields(f) ==
    /\ f.id # 0 /\ f.name # "" /\ f.createdAt # ""
    /\ f.content # NoContent /\ f.size # NoSize

\* the item holds a collection
IsCollection(store) == store.present /\ store.parses /\ store.array

\* the elements of the item that have all the fields
Kept(store) == IF IsCollection(store) THEN SelectSeq(store.files, HasAllFields) ELSE <<>>

\* a read of the item: the caller is given the elements that have all the fields and
\* no others: listFiles returns them, loadFile finds a name exactly when one of them
\* carries it, and their failures are those of an absent name
ReadGivesKept ==
    /\ last'.op = "listFiles" => last'.thrown = "none" /\ last'.files = Kept(localStorage)
    /\ last'.op = "loadFile" =>
            /\ last'.thrown \in {"none", "NotFound"}
            /\ last'.thrown = "none" <=> last'.name \in NamesOf(Kept(localStorage))
    /\ last'.op = "deleteFile" =>
            /\ last'.thrown \in {"none", "NotFound"}
            /\ last'.thrown = "none" <=> last'.name \in NamesOf(Kept(localStorage))

\* C30: a call that reads the registry is given the records of the item that have id,
\* name, content, createdAt and size and no others, whatever the item holds; an item
\* that is present and holds no collection reads as the empty set and is removed
C30_ReadToleratesAnyItem ==
    [][ReadsRegistry(last') =>
            /\ ReadGivesKept
            /\ (localStorage.present /\ ~IsCollection(localStorage)) =>
                    (~localStorage'.present \/ last'.wrote)]_vars

\* C30 (amended): as above, but the item is removed only when it is not the empty
\* string: an item that is the empty string reads as the empty set and is left in
\* place until a saveFile writes the registry
C30_ReadToleratesAnyItemButEmpty ==
    [][ReadsRegistry(last') =>
            /\ ReadGivesKept
            /\ (localStorage.present /\ ~localStorage.empty /\ ~IsCollection(localStorage)) =>
                    (~localStorage'.present \/ last'.wrote)
            /\ (localStorage.present /\ localStorage.empty) =>
                    (localStorage' = localStorage \/ last'.wrote)]_vars

\* listFiles has returned the one record with all the fields of an item that holds a
\* second element without a content
C30_Witness ==
    /\ last.op = "listFiles" /\ last.thrown = "none"
    /\ last.files = <<GoodFile>>
    /\ localStorage = Item(<<[AgedFile EXCEPT !.content = NoContent], GoodFile>>)

----------------------------------------------------------------------------
(* Calls that overlap in time *)

\* C31: the component never has two calls that read or write the registry in flight on
\* fileStorage at once
C31_OneCallAtATime ==
    Cardinality({i \in 1..Len(inFlight) : inFlight[i].op \in EngineOps}) <= 1

\* the step is the resumption of call i after its read of the registry
Resumes(i) == i <= Len(saves) /\ i <= Len(saves') /\ saves[i].pc = "read" /\ saves'[i].pc # "read"

\* the registry after the step holds the name with the content of call i
PersistedAfter(i) ==
    LET files == getStoredFiles(localStorage').files
    IN  /\ FindIndex(files, saves[i].name) # 0
        /\ LoadContent(files, saves[i].name) = saves[i].content

\* C32: a saveFile call awaits uploadFile only after its write of the registry: when it
\* starts the upload the registry holds its name with its content, a call whose write
\* failed starts no upload, and the provider receives only the file of a call whose
\* upload was started
C32_WriteBeforeUpload ==
    [][/\ \A i \in 1..MaxSaves : Resumes(i) =>
                /\ saves'[i].pc = "upload" => PersistedAfter(i)
                /\ saves'[i].outcome \notin {"none", "pending"} =>
                        /\ saves'[i].pc = "done"
                        /\ localStorage' = localStorage /\ remote' = remote
       /\ remote' # remote =>
                \E i \in 1..Len(saves) :
                    /\ saves[i].pc = "upload"
                    /\ remote' = UploadInto(remote, saves[i].name, saves[i].content)]_vars

\* a call has written its record and awaits uploadFile while another call has read the
\* registry and waits to resume
C32_Witness ==
    \E i, j \in 1..Len(saves) :
        /\ saves[i].pc = "upload" /\ saves[j].pc = "read"
        /\ FindIndex(Registry, saves[i].name) # 0
        /\ LoadContent(Registry, saves[i].name) = saves[i].content

\* C33: two saveFile calls for two distinct names that the registry did not hold when
\* they read it, both returned without error: the registry holds both names
C33_BothRecordsKept ==
    \A i, j \in 1..Len(saves) :
        (/\ i # j
         /\ saves[i].pc = "done" /\ saves[i].outcome = "none"
         /\ saves[j].pc = "done" /\ saves[j].outcome = "none"
         /\ saves[i].name # saves[j].name
         /\ saves[i].name \notin NamesOf(saves[i].existingFiles)
         /\ saves[j].name \notin NamesOf(saves[j].existingFiles)) =>
            {saves[i].name, saves[j].name} \subseteq NamesOf(Registry)

\* the promise of the i-th ensureAccessToken call has not settled
Waiting(i) == i <= Len(promises) /\ promises[i] = "waiting"

\* C34: every promise of ensureAccessToken settles once the token client has answered:
\* a promise that waits is resolved or rejected in the end, also when another
\* ensureAccessToken call was made while it waited
C34_EveryPromiseSettles ==
    \A i \in 1..MaxPromises : Waiting(i) ~> ~Waiting(i)

\* the calls that wait for their promise
PendingCalls(calls) == {i \in 1..Len(calls) : calls[i].state = "pending"}

\* C35: the ensureFolderId calls that overlap await one promise, at most one folder is
\* ever created, the calls that awaited the same promise got the same answer, and a call
\* made after a failure, when no lookup is in flight, starts a new lookup
C35_OneLookupInFlight ==
    [][/\ \A i \in PendingCalls(folderCalls') :
                /\ folderCalls'[i].attempt = folderIdPromise'.attempt
                /\ folderIdPromise'.pc \in {"lookup", "create"}
       /\ Len(driveFolders') <= 1
       /\ \A i, j \in 1..Len(folderCalls') :
                (folderCalls'[i].attempt = folderCalls'[j].attempt /\ folderCalls'[i].attempt # 0) =>
                    /\ folderCalls'[i].state = folderCalls'[j].state
                    /\ folderCalls'[i].id = folderCalls'[j].id
       /\ \A i \in 1..Len(folderCalls') :
                folderCalls'[i].state = "resolved" => folderCalls'[i].id = driveFolders'[1]
       /\ (/\ Len(folderCalls') = Len(folderCalls) + 1
           /\ folderId = 0
           /\ PendingCalls(folderCalls) = {}) =>
                /\ folderCalls'[Len(folderCalls')].state = "pending"
                /\ folderCalls'[Len(folderCalls')].attempt = Len(folderCalls')
                /\ folderIdPromise'.pc = "lookup"]_vars

\* two calls overlapped and were rejected together, and a later call started a lookup
\* of its own, whose creation request two calls await
C35_Witness ==
    /\ Len(folderCalls) = 4
    /\ folderCalls[1] = FolderCall(1, "rejected", 0)
    /\ folderCalls[2] = FolderCall(1, "rejected", 0)
    /\ folderCalls[3] = FolderCall(3, "pending", 0)
    /\ folderCalls[4] = FolderCall(3, "pending", 0)
    /\ folderIdPromise = [attempt |-> 3, pc |-> "create"]

----------------------------------------------------------------------------
(* The grant *)

\* C36: a fetchFiles of Dropbox whose listing or download was refused for missing scopes
\* has signed the user out (no token is stored, isReady() is false) and has failed with
\* a DropboxSyncError, returning no list
C36_MissingScopeSignsOut ==
    (last.op = "fetchFiles" /\ last.thrown = "missing_scope") =>
        /\ activeProvider = DropboxProvider
        /\ token = NoToken
        /\ ~IsAuthenticated(token, now)
        /\ GetAccessToken(token, now) = ""
        /\ last.error = "DropboxSyncError"
        /\ last.fetched = <<>>

\* a download of a listed file was refused for missing scopes
C36_Witness ==
    /\ last.op = "fetchFiles" /\ last.thrown = "missing_scope"
    /\ last.calls = <<"filesListFolder", "filesDownload">>
    /\ remote # <<>>
    /\ token = NoToken

\* C37: processRedirectResult exchanges the code and stores a token only for a redirect
\* whose state parameter is present and equals the state startAuthentication saved
C37_TokenOnlyForSavedState ==
    redirect.status = "success" =>
        /\ redirect.state # 0
        /\ redirect.storedState # 0
        /\ redirect.state = redirect.storedState

----------------------------------------------------------------------------
(* Storage figures *)

RECURSIVE BytesUpTo(_, _)
\* the bytes of the contents of the first k records
BytesUpTo(files, k) ==
    IF k = 0 THEN 0 ELSE BytesUpTo(files, k - 1) + BlobSize(files[k].content)

\* C38: getStorageInfo returns the sum of the sizes of the stored records as used, their
\* number as fileCount, 50 MiB as total, and as available total - used when that is
\* positive and 0 otherwise
C38_StorageInfoFigures ==
    last.op = "getStorageInfo" =>
        /\ last.info.used = BytesUpTo(Registry, Len(Registry))
        /\ last.info.fileCount = Cardinality(NamesOf(Registry))
        /\ last.info.total = 50 * 1024 * 1024
        /\ last.info.available >= 0
        /\ last.info.used + last.info.available >= last.info.total
        /\ last.info.used <= last.info.total =>
                last.info.used + last.info.available = last.info.total
        /\ last.info.used > last.info.total => last.info.available = 0

\* overwrites have pushed the registry above the total limit and getStorageInfo was called
C38_Witness ==
    /\ last.op = "getStorageInfo"
    /\ last.info.used > MAX_TOTAL_SIZE
    /\ last.info.available = 0
    /\ last.info.fileCount = NumBulk + 2

====
